---- MODULE Spec2Model ----
(***************************************************************************)
(* Restaurant POS: order lifecycle, table-state derivation, billing and    *)
(* the digital-menu synchronizer (server bundle, src/unnamed/part_000).    *)
(*                                                                         *)
(* Money is kept in integers.  Item prices and stored order totals are in  *)
(* cents (the two-decimal strings the code stores); the billing            *)
(* computation, whose 5% tax is not a whole number of cents, is carried    *)
(* in twentieths of a cent (UnitsPerCent) and rounded by toFixed2.         *)
(* Document ids (randomUUID) are fresh naturals drawn from per-collection  *)
(* counters; NULL is the null / undefined / not-found value.               *)
(***************************************************************************)
EXTENDS Integers, Sequences, FiniteSets, TLC

NULL == 0

\* ------------------------------------------------------------------ bounds
MaxOrders == 2
MaxItems == 2
MaxInvoices == 3
\* invoices the lifecycle specification lets the billing handlers create
MaxLifecycleInvoices == 1
\* external orders the digital menu places
MaxExternal == 2
\* reservations ever made
MaxReservations == 1
\* HTTP handlers suspended at an await at once
MaxInFlight == 1
\* external orders placed in the interleaved table specification
MaxTableExternal == 1
\* runs of syncOrders suspended at an await at once
MaxPasses == 2
\* the largest stock of an inventory item before any wastage
MaxStock == 4
\* add-item requests suspended at an await at once
MaxAdding == 2
\* calls of start() that go past its isRunning check
MaxStarts == 3

\* ------------------------------------------------------- fixed collections
\* Tables, menu, recipes and inventory ids are seeded data: their CRUD routes
\* are outside the order lifecycle.
Tables == {1}
MenuItems == {1, 2}
InventoryIds == {1, 2}

OrderStatuses ==
    <<"saved", "sent_to_kitchen", "ready_to_bill", "billed", "paid", "completed">>
ItemStatuses == {"new", "preparing", "ready", "served"}

VARIABLES
    orders,       \* collection "orders":      id -> [tableId, status, total, ext]
    orderItems,   \* collection "orderItems":  id -> [orderId, menuItemId, quantity, price, status]
    tables,       \* collection "tables":      id -> [status, currentOrderId]
    invoices,     \* collection "invoices":    id -> [invoiceNumber, orderId, subtotal, tax, total, status]
    stock,        \* collection "inventoryItems": id -> currentStock
    nOrders,      \* orders ever created   (next fresh order id - 1)
    nItems,       \* order items ever created
    nInvoices,    \* invoices ever created
    resp,         \* the last HTTP response: [op, code]
    digital,      \* the orders of collection "digital_menu_customer_orders":
                  \*   id -> [status, paymentStatus, tableNumber, items, total,
                  \*          syncedToPOS, posOrderId]
    processedOrderIds,      \* DigitalMenuSyncService.processedOrderIds
    orderStatusMap,         \* DigitalMenuSyncService.orderStatusMap
    orderPaymentStatusMap,  \* DigitalMenuSyncService.orderPaymentStatusMap
    reservations, \* collection "reservations": id -> [tableId, status]
    nReservations,\* reservations ever created
    pend,         \* the handlers suspended at an await: a set of continuations
    broadcasts,   \* the billing messages broadcast by the checkouts that ran at
                  \*   await granularity, oldest first
    isRunning,    \* DigitalMenuSyncService.isRunning
    syncInterval, \* DigitalMenuSyncService.syncInterval: a timer, or NULL
    timers,       \* the interval timers set and not cleared
    nStarts       \* calls of start() that went past its isRunning check

timerVars == <<isRunning, syncInterval, timers, nStarts>>
syncVars == <<digital, processedOrderIds, orderStatusMap, orderPaymentStatusMap, timerVars>>
taskVars == <<reservations, nReservations, pend, broadcasts>>

vars == <<orders, orderItems, tables, invoices, stock, nOrders, nItems, nInvoices, resp,
          syncVars, taskVars>>

\* ------------------------------------------------------------- arithmetic
\* The sum of f[x] over the x in S.
RECURSIVE SumOver(_, _)
SumOver(S, f) ==
    IF S = {} THEN 0
    ELSE LET x == CHOOSE y \in S : TRUE
         IN  f[x] + SumOver(S \ {x}, f)

Abs(x) == IF x < 0 THEN -x ELSE x

\* tax = subtotal * 0.05
TaxPercent == 5

\* 0.05 = 1/20: a twentieth of a cent is the finest amount subtotal * 0.05 yields.
UnitsPerCent == 100 \div TaxPercent

\* Number.prototype.toFixed(2) on an amount held in twentieths of a cent:
\* the nearest cent, halves rounded away from zero.
toFixed2(units) ==
    IF units >= 0 THEN (units + (UnitsPerCent \div 2)) \div UnitsPerCent
    ELSE -((-units + (UnitsPerCent \div 2)) \div UnitsPerCent)

\* ---------------------------------------------------------------- storage
\* MongoStorage methods, as functions of the collection they read or write.
\* findOneAndUpdate on an id that matches no document changes nothing.
hasDoc(coll, id) == id \in DOMAIN coll

updateTableStatus(tbls, id, status) ==
    IF hasDoc(tbls, id) THEN [tbls EXCEPT ![id].status = status] ELSE tbls

updateTableOrder(tbls, id, orderId) ==
    IF hasDoc(tbls, id) THEN [tbls EXCEPT ![id].currentOrderId = orderId] ELSE tbls

createOrder(os, id, insertOrder) ==
    (id :> [tableId |-> insertOrder.tableId,
            status  |-> insertOrder.status,
            total   |-> insertOrder.total,
            ext     |-> insertOrder.ext]) @@ os

updateOrderStatus(os, id, status) ==
    IF hasDoc(os, id) THEN [os EXCEPT ![id].status = status] ELSE os

updateOrderTotal(os, id, total) ==
    IF hasDoc(os, id) THEN [os EXCEPT ![id].total = total] ELSE os

completeOrder(os, id) == updateOrderStatus(os, id, "completed")

billOrder(os, id) == updateOrderStatus(os, id, "billed")

checkoutOrder(os, id) == updateOrderStatus(os, id, "paid")

getOrderItems(its, orderId) == {i \in DOMAIN its : its[i].orderId = orderId}

createOrderItem(its, id, item) ==
    (id :> [orderId    |-> item.orderId,
            menuItemId |-> item.menuItemId,
            quantity   |-> item.quantity,
            price      |-> item.price,
            status     |-> item.status]) @@ its

updateOrderItemStatus(its, id, status) ==
    IF hasDoc(its, id) THEN [its EXCEPT ![id].status = status] ELSE its

deleteDoc(coll, id) == [k \in DOMAIN coll \ {id} |-> coll[k]]

\* A delete that takes the other items of the same order along.
deleteOrderItemAndSiblings(its, id) ==
    [k \in {j \in DOMAIN its : its[j].orderId # its[id].orderId} |-> its[k]]

deleteOrderItem(its, id) == deleteDoc(its, id)

deleteInvoice(invs, id) == deleteDoc(invs, id)

\* ------------------------------------------------- order-item aggregates
\* orderItems.reduce((sum, i) => sum + parseFloat(i.price) * i.quantity, 0),
\* in twentieths of a cent.
itemsSubtotal(its, ids) ==
    SumOver(ids, [i \in ids |-> its[i].price * UnitsPerCent * its[i].quantity])

\* The table status the add-item and item-status handlers derive from the
\* statuses of a list of order items; "none" when no branch fires.  every() of an
\* empty list is true.
deriveTableStatus(its, ids) ==
    LET hasNew       == \E i \in ids : its[i].status = "new"
        hasPreparing == \E i \in ids : its[i].status = "preparing"
        allReady     == \A i \in ids : its[i].status \in {"ready", "served"}
        allServed    == \A i \in ids : its[i].status = "served"
    IN  IF allServed THEN "served"
        ELSE IF allReady THEN "ready"
        ELSE IF hasPreparing THEN "preparing"
        ELSE IF hasNew THEN "occupied"
        ELSE "none"

applyDerivedStatus(tbls, tableId, its, ids) ==
    LET s == deriveTableStatus(its, ids)
    IN  IF s = "none" THEN tbls ELSE updateTableStatus(tbls, tableId, s)

\* ------------------------------------------------------------ request inputs
\* Order ids a request may name: every id that could exist, and one that never does.
UnknownOrderId == MaxOrders + 1
OrderIdInputs == 1 .. UnknownOrderId
TableInputs == Tables \cup {NULL}
ItemInputs ==
    { [menuItemId |-> 1, quantity |-> 2, price |-> 100],
      [menuItemId |-> 1, quantity |-> 1, price |-> 100],
      [menuItemId |-> 2, quantity |-> 1, price |-> 110] }

\* --------------------------------------------------------- HTTP handlers
\* insertOrderSchema.safeParse(req.body).data: body is a record of the fields
\* the request carries; tableId is optional, status defaults to "saved" and
\* total to "0".
insertOrderSchema(body) ==
    [tableId |-> IF "tableId" \in DOMAIN body THEN body.tableId ELSE NULL,
     status  |-> IF "status" \in DOMAIN body THEN body.status ELSE "saved",
     total   |-> IF "total" \in DOMAIN body THEN body.total ELSE 0,
     ext     |-> NULL]

\* POST /api/orders with request body `body`
PostOrder(body) ==
    /\ nOrders < MaxOrders
    /\ LET id    == nOrders + 1
           os    == createOrder(orders, id, insertOrderSchema(body))
           order == os[id]
       IN  /\ orders' = os
           /\ nOrders' = id
           /\ tables' = IF order.tableId # NULL
                        THEN updateTableStatus(updateTableOrder(tables, order.tableId, id),
                                               order.tableId, "occupied")
                        ELSE tables
    /\ resp' = [op |-> "create", code |-> 200]
    /\ UNCHANGED <<orderItems, invoices, stock, nItems, nInvoices, syncVars, taskVars>>

\* POST /api/orders naming a table (or none) and leaving status and total out
CreateOrder(tableId) == PostOrder([tableId |-> tableId])

\* Request bodies of POST /api/orders: with and without a table, a status and
\* a total (in cents).
OrderBodyInputs ==
    UNION { { [tableId |-> t],
              [tableId |-> t, status |-> "saved", total |-> 0],
              [tableId |-> t, status |-> "paid"],
              [tableId |-> t, total |-> 99900],
              [tableId |-> t, status |-> "billed", total |-> 12345] } : t \in TableInputs }
    \cup { [status |-> "completed"] }

\* POST /api/orders/:id/items  (urlId is :id, body is the validated request body)
AddItem(urlId, bodyOrderId, input) ==
    /\ nItems < MaxItems
    /\ LET id  == nItems + 1
           its == createOrderItem(orderItems, id,
                      [orderId |-> bodyOrderId, menuItemId |-> input.menuItemId,
                       quantity |-> input.quantity, price |-> input.price,
                       status |-> "new"])
           ids == getOrderItems(its, urlId)
           os  == updateOrderTotal(orders, urlId, toFixed2(itemsSubtotal(its, ids)))
       IN  /\ orderItems' = its
           /\ nItems' = id
           /\ orders' = os
           /\ tables' = IF hasDoc(os, urlId) /\ os[urlId].tableId # NULL
                        THEN applyDerivedStatus(tables, os[urlId].tableId, its, ids)
                        ELSE tables
    /\ resp' = [op |-> "addItem", code |-> 200]
    /\ UNCHANGED <<invoices, stock, nOrders, nInvoices, syncVars, taskVars>>

\* PATCH /api/order-items/:id/status
UpdateItemStatus(itemId, status) ==
    /\ IF ~hasDoc(orderItems, itemId)
       THEN /\ resp' = [op |-> "itemStatus", code |-> 404]
            /\ UNCHANGED <<orderItems, tables>>
       ELSE LET its == updateOrderItemStatus(orderItems, itemId, status)
                oid == its[itemId].orderId
            IN  /\ orderItems' = its
                /\ tables' = IF hasDoc(orders, oid) /\ orders[oid].tableId # NULL
                             THEN applyDerivedStatus(tables, orders[oid].tableId, its,
                                                     getOrderItems(its, oid))
                             ELSE tables
                /\ resp' = [op |-> "itemStatus", code |-> 200]
    /\ UNCHANGED <<orders, invoices, stock, nOrders, nItems, nInvoices, syncVars, taskVars>>

\* DELETE /api/order-items/:id
DeleteItem(itemId) ==
    /\ IF ~hasDoc(orderItems, itemId)
       THEN /\ resp' = [op |-> "deleteItem", code |-> 404]
            /\ UNCHANGED <<orderItems, orders>>
       ELSE LET oid == orderItems[itemId].orderId
                its == deleteOrderItem(orderItems, itemId)
            IN  /\ orderItems' = its
                /\ orders' = updateOrderTotal(orders, oid,
                                 toFixed2(itemsSubtotal(its, getOrderItems(its, oid))))
                /\ resp' = [op |-> "deleteItem", code |-> 200]
    /\ UNCHANGED <<tables, invoices, stock, nOrders, nItems, nInvoices, syncVars, taskVars>>

\* ---------------------------------------------------------------- recipes
\* Seeded recipe data.  A recipe's index is its creation order: menu item 1 has
\* two recipes (nothing stops POST /api/recipes from adding a second), menu
\* item 2 has none, and the last ingredient names an inventory item that does
\* not exist.
Recipes == << [menuItemId |-> 1], [menuItemId |-> 1] >>
RecipeIngredients ==
    << [recipeId |-> 1, inventoryItemId |-> 1, quantity |-> 4],
       [recipeId |-> 2, inventoryItemId |-> 1, quantity |-> 2],
       [recipeId |-> 2, inventoryItemId |-> 2, quantity |-> 1],
       [recipeId |-> 2, inventoryItemId |-> 1, quantity |-> 1],
       [recipeId |-> 2, inventoryItemId |-> 3, quantity |-> 1] >>

\* findOne({menuItemId}, {sort: {createdAt: -1}}): the most recently created.
getRecipeByMenuItemId(menuItemId) ==
    LET rs == {r \in DOMAIN Recipes : Recipes[r].menuItemId = menuItemId}
    IN  IF rs = {} THEN NULL ELSE CHOOSE r \in rs : \A q \in rs : q <= r

getRecipeIngredients(recipeId) ==
    SelectSeq(RecipeIngredients, LAMBDA g : g.recipeId = recipeId)

\* deductIngredients with the new stock floored at zero.
RECURSIVE deductIngredientsClamped(_, _, _)
deductIngredientsClamped(stk, ings, quantity) ==
    IF ings = <<>> THEN stk
    ELSE LET g  == Head(ings)
             n  == IF hasDoc(stk, g.inventoryItemId)
                   THEN stk[g.inventoryItemId] - g.quantity * quantity
                   ELSE 0
             s1 == IF hasDoc(stk, g.inventoryItemId)
                   THEN [stk EXCEPT ![g.inventoryItemId] = IF n < 0 THEN 0 ELSE n]
                   ELSE stk
         IN  deductIngredientsClamped(s1, Tail(ings), quantity)

\* The inner loop of deductInventoryForOrder: each ingredient reads the current
\* stock and writes it back less quantity * orderItem.quantity.
RECURSIVE deductIngredients(_, _, _)
deductIngredients(stk, ings, quantity) ==
    IF ings = <<>> THEN stk
    ELSE LET g  == Head(ings)
             s1 == IF hasDoc(stk, g.inventoryItemId)
                   THEN [stk EXCEPT ![g.inventoryItemId] = @ - g.quantity * quantity]
                   ELSE stk
         IN  deductIngredients(s1, Tail(ings), quantity)

deductForItem(stk, item) ==
    LET recipe == getRecipeByMenuItemId(item.menuItemId)
    IN  IF recipe = NULL THEN stk
        ELSE deductIngredients(stk, getRecipeIngredients(recipe), item.quantity)

\* MongoStorage.deductInventoryForOrder: the outer loop over the order's items.
RECURSIVE deductItems(_, _, _)
deductItems(stk, its, ids) ==
    IF ids = {} THEN stk
    ELSE LET i == CHOOSE k \in ids : \A j \in ids : k <= j
         IN  deductItems(deductForItem(stk, its[i]), its, ids \ {i})

deductInventoryForOrder(stk, its, orderId) ==
    deductItems(stk, its, getOrderItems(its, orderId))

\* --------------------------------------------------------------- invoices
\* The decimal digits of n, most significant first (String(n)).
RECURSIVE digits(_)
digits(n) == IF n < 10 THEN <<n>> ELSE Append(digits(n \div 10), n % 10)

\* padStart(len, "0")
RECURSIVE padStart(_, _)
padStart(ds, len) == IF Len(ds) >= len THEN ds ELSE padStart(<<0>> \o ds, len)

\* `INV-${String(invoiceCount + 1).padStart(4, "0")}`: the digits after "INV-".
invoiceNumberFor(invs) == padStart(digits(Cardinality(DOMAIN invs) + 1), 4)

\* tax = subtotal * 0.05, in the unit of subtotal (twentieths of a cent, of
\* which every subtotal in cents is a multiple of 20).
taxOf(subtotal) == (subtotal * TaxPercent) \div 100

\* storage.createInvoice with the fields the three billing handlers pass.
createInvoice(invs, id, orderId, subtotal, status) ==
    (id :> [invoiceNumber |-> invoiceNumberFor(invs),
            orderId  |-> orderId,
            subtotal |-> toFixed2(subtotal),
            tax      |-> toFixed2(taxOf(subtotal)),
            total    |-> toFixed2(subtotal + taxOf(subtotal)),
            status   |-> status]) @@ invs

\* ----------------------------------------------------- split validation
ToleranceCents == 1

\* Math.abs(splitSum - total) > tolerance, on amounts in twentieths of a cent.
\* The code compares IEEE doubles.  Away from the boundary the comparison is
\* the exact one; when the decimal difference is exactly 0.01 its result is
\* decided by the binary representation error of the operands (total 210.00,
\* splits 100 + 110.01: 0.009999999999990905, accepted; total 105.00, split
\* 105.01: 0.010000000000005116, rejected), which integer amounts do not carry:
\* there the result is the input fp.
exceedsTolerance(splitSum, total, fp) ==
    LET diff == Abs(splitSum - total)
        tol  == ToleranceCents * UnitsPerCent
    IN  diff > tol \/ (diff = tol /\ fp)

splitSumOf(splits) ==
    SumOver(DOMAIN splits, [k \in DOMAIN splits |-> splits[k] * UnitsPerCent])

\* The result of checkout's validation of req.body.splitPayments (amounts in
\* cents): "ok", or the rejection it returns.
validateSplits(splits, total, fp) ==
    IF Len(splits) > 0
    THEN IF exceedsTolerance(splitSumOf(splits), total, fp) THEN "sum"
         ELSE IF \E k \in DOMAIN splits : splits[k] <= 0 THEN "positive"
         ELSE "ok"
    ELSE "ok"

\* --------------------------------------------- billing and status handlers
\* the table release of checkout and complete
releaseTable(tbls, tableId) ==
    IF tableId # NULL
    THEN updateTableStatus(updateTableOrder(tbls, tableId, NULL), tableId, "free")
    ELSE tbls

\* PATCH /api/orders/:id/status
PatchStatus(id, status) ==
    /\ IF ~hasDoc(orders, id)
       THEN /\ resp' = [op |-> "patchStatus", code |-> 404]
            /\ UNCHANGED orders
       ELSE /\ orders' = updateOrderStatus(orders, id, status)
            /\ resp' = [op |-> "patchStatus", code |-> 200]
    /\ UNCHANGED <<orderItems, tables, invoices, stock, nOrders, nItems, nInvoices, syncVars, taskVars>>

\* Request bodies of POST /api/admin/clear-data
ClearTypeInputs == {{"all"}, {"orderItems"}, {"invoices"}, {"orders"}}

\* POST /api/admin/clear-data: the order items of every order, the invoices
\* and the orders are deleted as types asks; no table is written.
ClearData(types) ==
    /\ orderItems' = IF "orderItems" \in types \/ "all" \in types
                     THEN [i \in {j \in DOMAIN orderItems :
                                     ~hasDoc(orders, orderItems[j].orderId)} |-> orderItems[i]]
                     ELSE orderItems
    /\ invoices' = IF "invoices" \in types \/ "all" \in types THEN <<>> ELSE invoices
    /\ orders' = IF "orders" \in types \/ "all" \in types THEN <<>> ELSE orders
    /\ resp' = [op |-> "clearData", code |-> 200]
    /\ UNCHANGED <<tables, stock, nOrders, nItems, nInvoices, syncVars, taskVars>>

\* POST /api/orders/:id/complete
Complete(id) ==
    /\ IF ~hasDoc(orders, id)
       THEN /\ resp' = [op |-> "complete", code |-> 404]
            /\ UNCHANGED <<orders, tables>>
       ELSE /\ orders' = completeOrder(orders, id)
            /\ tables' = releaseTable(tables, orders[id].tableId)
            /\ resp' = [op |-> "complete", code |-> 200]
    /\ UNCHANGED <<orderItems, invoices, stock, nOrders, nItems, nInvoices, syncVars, taskVars>>

\* POST /api/orders/:id/kot
Kot(id) ==
    /\ IF ~hasDoc(orders, id)
       THEN /\ resp' = [op |-> "kot", code |-> 404]
            /\ UNCHANGED orders
       ELSE /\ orders' = updateOrderStatus(orders, id, "sent_to_kitchen")
            /\ resp' = [op |-> "kot", code |-> 200]
    /\ UNCHANGED <<orderItems, tables, invoices, stock, nOrders, nItems, nInvoices, syncVars, taskVars>>

\* POST /api/orders/:id/save  (print is req.body.print)
Save(id, print) ==
    /\ IF ~hasDoc(orders, id)
       THEN /\ resp' = [op |-> "save", code |-> 404]
            /\ UNCHANGED <<orders, invoices, nInvoices>>
       ELSE /\ orders' = updateOrderStatus(orders, id, "saved")
            /\ IF print
               THEN /\ nInvoices < MaxInvoices
                    /\ invoices' = createInvoice(invoices, nInvoices + 1, id,
                           itemsSubtotal(orderItems, getOrderItems(orderItems, id)), "Saved")
                    /\ nInvoices' = nInvoices + 1
               ELSE UNCHANGED <<invoices, nInvoices>>
            /\ resp' = [op |-> "save", code |-> 200]
    /\ UNCHANGED <<orderItems, tables, stock, nOrders, nItems, syncVars, taskVars>>

\* POST /api/orders/:id/bill
Bill(id) ==
    /\ IF ~hasDoc(orders, id)
       THEN /\ resp' = [op |-> "bill", code |-> 404]
            /\ UNCHANGED <<orders, invoices, nInvoices>>
       ELSE /\ nInvoices < MaxInvoices
            /\ orders' = billOrder(orders, id)
            /\ invoices' = createInvoice(invoices, nInvoices + 1, id,
                   itemsSubtotal(orderItems, getOrderItems(orderItems, id)), "Billed")
            /\ nInvoices' = nInvoices + 1
            /\ resp' = [op |-> "bill", code |-> 200]
    /\ UNCHANGED <<orderItems, tables, stock, nOrders, nItems, syncVars, taskVars>>

\* POST /api/orders/:id/checkout  (splits is req.body.splitPayments, <<>> when
\* absent; fp is the floating-point outcome exceedsTolerance reads)
Checkout(id, splits, fp) ==
    /\ IF ~hasDoc(orders, id)
       THEN /\ resp' = [op |-> "checkout", code |-> 404]
            /\ UNCHANGED <<orders, tables, invoices, stock, nInvoices>>
       ELSE LET subtotal == itemsSubtotal(orderItems, getOrderItems(orderItems, id))
                total    == subtotal + taxOf(subtotal)
            IN  IF validateSplits(splits, total, fp) # "ok"
                THEN /\ resp' = [op |-> "checkout", code |-> 400]
                     /\ UNCHANGED <<orders, tables, invoices, stock, nInvoices>>
                ELSE /\ nInvoices < MaxInvoices
                     /\ orders' = checkoutOrder(orders, id)
                     /\ tables' = releaseTable(tables, orders[id].tableId)
                     /\ invoices' = createInvoice(invoices, nInvoices + 1, id, subtotal, "Paid")
                     /\ nInvoices' = nInvoices + 1
                     /\ stock' = deductInventoryForOrder(stock, orderItems, id)
                     /\ resp' = [op |-> "checkout", code |-> 200]
    /\ UNCHANGED <<orderItems, nOrders, nItems, syncVars, taskVars>>

\* DELETE /api/invoices/:id
DeleteInvoice(id) ==
    /\ IF ~hasDoc(invoices, id)
       THEN /\ resp' = [op |-> "deleteInvoice", code |-> 404]
            /\ UNCHANGED invoices
       ELSE /\ invoices' = deleteInvoice(invoices, id)
            /\ resp' = [op |-> "deleteInvoice", code |-> 200]
    /\ UNCHANGED <<orders, orderItems, tables, stock, nOrders, nItems, nInvoices, syncVars, taskVars>>

\* MongoStorage.createWastage: the stock is read again and written back less
\* the quantity, then the wastage record is inserted.
createWastage(stk, inventoryItemId, quantity) ==
    IF hasDoc(stk, inventoryItemId)
    THEN [stk EXCEPT ![inventoryItemId] = @ - quantity]
    ELSE stk

\* POST /api/wastage  (the answer carries the wastage record's quantity)
Wastage(inventoryItemId, quantity) ==
    /\ IF ~hasDoc(stock, inventoryItemId)
       THEN /\ resp' = [op |-> "wastage", code |-> 404]
            /\ UNCHANGED stock
       ELSE LET newStock == stock[inventoryItemId] - quantity
            IN  IF newStock < 0
                THEN /\ resp' = [op |-> "wastage", code |-> 400]
                     /\ UNCHANGED stock
                ELSE /\ stock' = createWastage(
                                     [stock EXCEPT ![inventoryItemId] = newStock],
                                     inventoryItemId, quantity)
                     /\ resp' = [op |-> "wastage", code |-> 200, quantity |-> quantity]
    /\ UNCHANGED <<orders, orderItems, tables, invoices, nOrders, nItems, nInvoices,
                   syncVars, taskVars>>

\* splitPayments lists a checkout request may carry, amounts in cents.
SplitInputs ==
    { <<>>, <<210>>, <<211>>, <<212>>, <<100, 110>>, <<-5, 215>>, <<210, 0>> }

\* ------------------------------------------------ digital-menu synchronizer
\* The external collection is owned by the digital-menu application.  Its
\* customer documents are flattened: digital maps an external order's _id to
\* the order, and a pass visits the orders in ascending _id.  Every external
\* order carries an _id, item names and numeric prices.  A tableNumber is the
\* id of the table carrying that number (one floor).
ExtIds == 1 .. MaxExternal

UnknownTableNumber == Cardinality(Tables) + 1

\* digitalOrder.paymentStatus || "pending"   ("" is an absent paymentStatus)
paymentOf(d) == IF d.paymentStatus = "" THEN "pending" ELSE d.paymentStatus

isInvoiceGenerated(s) == s \in {"invoice_generated", "invoice generated"}

\* No storage call throws.
NoFault == [e |-> NULL, call |-> ""]

\* The service and the collections it reads and writes, as one value, with
\* the counters synced and updated of a syncOrders run and the fault of the
\* run: the storage call that throws, and the external order it throws for.
server ==
    [orders |-> orders, orderItems |-> orderItems, tables |-> tables,
     invoices |-> invoices, nOrders |-> nOrders, nItems |-> nItems,
     nInvoices |-> nInvoices, digital |-> digital,
     processedOrderIds |-> processedOrderIds, orderStatusMap |-> orderStatusMap,
     orderPaymentStatusMap |-> orderPaymentStatusMap, synced |-> 0, updated |-> 0,
     fault |-> NoFault]

\* the storage call named call throws while the run works on external order e
throws(st, e, call) == st.fault.e = e /\ st.fault.call = call

\* Map.set on orderStatusMap and orderPaymentStatusMap
setObserved(st, e, status, paymentStatus) ==
    [st EXCEPT !.orderStatusMap = (e :> status) @@ @,
               !.orderPaymentStatusMap = (e :> paymentStatus) @@ @]

findTableByNumberAndFloor(tbls, tableNumber) ==
    IF tableNumber # NULL /\ hasDoc(tbls, tableNumber) THEN tableNumber ELSE NULL

\* menuItem?.id || "unknown": NULL stands for "unknown"
findMenuItemByName(name) == IF name \in MenuItems THEN name ELSE NULL

\* the status convertAndCreatePOSOrder gives the native order
convertedOrderStatus(d) == IF d.paymentStatus = "paid" THEN "billed" ELSE "sent_to_kitchen"

\* convertAndCreatePOSOrder's loop over digitalOrder.items (prices in
\* twentieths of a cent, stored as toFixed(2))
RECURSIVE createCartItems(_, _, _)
createCartItems(st, posOrderId, cart) ==
    IF cart = <<>> THEN st
    ELSE LET item == Head(cart)
             id   == st.nItems + 1
             its  == createOrderItem(st.orderItems, id,
                         [orderId |-> posOrderId,
                          menuItemId |-> findMenuItemByName(item.menuItemName),
                          quantity |-> item.quantity, price |-> toFixed2(item.price),
                          status |-> "new"])
         IN  createCartItems([st EXCEPT !.orderItems = its, !.nItems = id],
                             posOrderId, Tail(cart))

\* convertAndCreatePOSOrder: the native order's id is the new st.nOrders.
convertAndCreatePOSOrder(st, e) ==
    LET d     == st.digital[e]
        table == findTableByNumberAndFloor(st.tables, d.tableNumber)
        t1    == IF table # NULL /\ st.tables[table].status = "free"
                 THEN updateTableStatus(st.tables, table, "occupied")
                 ELSE st.tables
        id    == st.nOrders + 1
        os    == createOrder(st.orders, id,
                     [tableId |-> table, status |-> convertedOrderStatus(d),
                      total |-> 0, ext |-> e])
        t2    == IF table # NULL THEN updateTableOrder(t1, table, id) ELSE t1
        s1    == createCartItems([st EXCEPT !.orders = os, !.nOrders = id, !.tables = t2],
                                 id, d.items)
    IN  [s1 EXCEPT !.orders = updateOrderTotal(@, id, toFixed2(d.total))]

\* The calls of a conversion that may throw: createOrder, the first
\* createOrderItem, updateOrderTotal, and the collection's updateOne after the
\* conversion returned.
ConvertCalls == {"createOrder", "createOrderItem", "updateOrderTotal", "updateOne"}

\* the conversion of d makes the call
reached(d, call) == call = "createOrderItem" => d.items # <<>>

\* convertAndCreatePOSOrder up to the call that throws: what it has written.
convertThrowing(st, e, call) ==
    LET d     == st.digital[e]
        table == findTableByNumberAndFloor(st.tables, d.tableNumber)
        t1    == IF table # NULL /\ st.tables[table].status = "free"
                 THEN updateTableStatus(st.tables, table, "occupied")
                 ELSE st.tables
        id    == st.nOrders + 1
        os    == createOrder(st.orders, id,
                     [tableId |-> table, status |-> convertedOrderStatus(d),
                      total |-> 0, ext |-> e])
        t2    == IF table # NULL THEN updateTableOrder(t1, table, id) ELSE t1
        s0    == [st EXCEPT !.orders = os, !.nOrders = id, !.tables = t2]
    IN  CASE call = "createOrder"      -> [st EXCEPT !.tables = t1]
          [] call = "createOrderItem"  -> s0
          [] call = "updateOrderTotal" -> createCartItems(s0, id, d.items)
          [] OTHER                     -> convertAndCreatePOSOrder(st, e)

\* A catch that leaves the identifier marked.
unmarkNothing(st, e) == st

\* the catch of the ingest loop
unmark(st, e) ==
    [st EXCEPT !.processedOrderIds = @ \ {e},
               !.orderStatusMap = deleteDoc(@, e),
               !.orderPaymentStatusMap = deleteDoc(@, e)]

\* The ingest pass converts an external order on every pass that meets it.
shouldIngestUnguarded(d, processed, e) ==
    d.status \in {"pending", "confirmed"}

\* The three guards of the ingest pass.
shouldIngest(d, processed, e) ==
    /\ d.syncedToPOS # TRUE
    /\ d.status \in {"pending", "confirmed"}
    /\ e \notin processed

\* The body of the ingest loop for one external order.
ingestOrder(st, e) ==
    LET d == st.digital[e]
    IN  IF ~shouldIngest(d, st.processedOrderIds, e) THEN st
        ELSE LET marked == setObserved(
                               [st EXCEPT !.processedOrderIds = @ \cup {e}],
                               e, d.status, paymentOf(d))
                 conv   == convertAndCreatePOSOrder(marked, e)
             IN  IF \E call \in ConvertCalls : throws(st, e, call) /\ reached(d, call)
                 THEN unmark(convertThrowing(marked, e, st.fault.call), e)
                 ELSE [conv EXCEPT !.synced = @ + 1,
                                   !.digital[e].syncedToPOS = TRUE,
                                   !.digital[e].posOrderId = conv.nOrders]

\* the smallest element of a non-empty set of ids
first(ids) == CHOOSE k \in ids : \A j \in ids : k <= j

RECURSIVE ingestPass(_, _)
ingestPass(st, ids) ==
    IF ids = {} THEN st
    ELSE ingestPass(ingestOrder(st, first(ids)), ids \ {first(ids)})

\* autoCheckoutAndGenerateInvoice
autoCheckoutAndGenerateInvoice(st, posOrderId) ==
    LET subtotal == itemsSubtotal(st.orderItems, getOrderItems(st.orderItems, posOrderId))
        id       == st.nInvoices + 1
    IN  [st EXCEPT
            !.orders = checkoutOrder(@, posOrderId),
            !.tables = IF st.orders[posOrderId].tableId # NULL
                       THEN updateTableStatus(
                                updateTableOrder(@, st.orders[posOrderId].tableId, NULL),
                                st.orders[posOrderId].tableId, "free")
                       ELSE @,
            !.invoices = createInvoice(@, id, posOrderId, subtotal, "Paid"),
            !.nInvoices = id]

\* statusMapping[digitalOrder.status] || "new"
statusMapping(status) ==
    CASE status = "preparing" -> "preparing"
      [] status \in {"completed", "cancelled"} -> "served"
      [] OTHER -> "new"

\* The calls of an update that may throw: getOrder, checkoutOrder (the first
\* write of the auto-checkout) and the first updateOrderItemStatus.
UpdateCalls == {"getOrder", "checkoutOrder", "updateOrderItemStatus"}

\* updatePOSOrderStatus.  It and autoCheckoutAndGenerateInvoice catch what
\* their storage calls throw, log it and return.
updatePOSOrderStatus(st, e) ==
    LET d == st.digital[e]
    IN  IF d.posOrderId = NULL THEN st
        ELSE IF throws(st, e, "getOrder") THEN st
        ELSE IF ~hasDoc(st.orders, d.posOrderId) THEN st
        ELSE IF isInvoiceGenerated(d.paymentStatus) \/ isInvoiceGenerated(d.status)
        THEN IF throws(st, e, "checkoutOrder") THEN st
             ELSE autoCheckoutAndGenerateInvoice(st, d.posOrderId)
        ELSE IF /\ throws(st, e, "updateOrderItemStatus")
                /\ \E i \in getOrderItems(st.orderItems, d.posOrderId) :
                       st.orderItems[i].status # statusMapping(d.status)
        THEN st
        ELSE [st EXCEPT !.orderItems =
                 [i \in DOMAIN @ |->
                     IF @[i].orderId = d.posOrderId
                     THEN [@[i] EXCEPT !.status = statusMapping(d.status)]
                     ELSE @[i]]]

\* The body of the update loop for one external order.
updateOrder(st, e) ==
    LET d    == st.digital[e]
        hasS == e \in DOMAIN st.orderStatusMap
        hasP == e \in DOMAIN st.orderPaymentStatusMap
        currentPaymentStatus == paymentOf(d)
        statusChanged        == hasS /\ st.orderStatusMap[e] # d.status
        paymentStatusChanged == hasP /\ st.orderPaymentStatusMap[e] # currentPaymentStatus
        needsCheckout        == isInvoiceGenerated(currentPaymentStatus) /\ d.posOrderId # NULL
    IN  IF d.syncedToPOS # TRUE THEN st
        ELSE IF /\ needsCheckout
                /\ ~throws(st, e, "getOrder")
                /\ hasDoc(st.orders, d.posOrderId)
                /\ st.orders[d.posOrderId].status \notin {"paid", "billed"}
        THEN [updatePOSOrderStatus(st, e) EXCEPT !.updated = @ + 1]
        ELSE IF statusChanged \/ paymentStatusChanged
        THEN [setObserved(updatePOSOrderStatus(st, e), e, d.status, currentPaymentStatus)
                 EXCEPT !.updated = @ + 1]
        ELSE IF ~hasS \/ ~hasP
        THEN setObserved(st, e, d.status, currentPaymentStatus)
        ELSE st

RECURSIVE updatePass(_, _)
updatePass(st, ids) ==
    IF ids = {} THEN st
    ELSE updatePass(updateOrder(st, first(ids)), ids \ {first(ids)})

\* syncOrders: the ingest pass over the collection, then the update pass over
\* the collection read again.
syncOrders(st) ==
    LET ingested == ingestPass(st, DOMAIN st.digital)
    IN  updatePass(ingested, DOMAIN ingested.digital)

\* One run of syncOrders to completion under a fault: the interval tick, or
\* POST /api/digital-menu/sync-now, which answers what the run returned.
RunSync(fault) ==
    LET st == syncOrders([server EXCEPT !.fault = fault])
    IN  /\ st.nOrders <= MaxOrders
        /\ st.nItems <= MaxItems
        /\ st.nInvoices <= MaxInvoices
        /\ orders' = st.orders
        /\ orderItems' = st.orderItems
        /\ tables' = st.tables
        /\ invoices' = st.invoices
        /\ nOrders' = st.nOrders
        /\ nItems' = st.nItems
        /\ nInvoices' = st.nInvoices
        /\ digital' = st.digital
        /\ processedOrderIds' = st.processedOrderIds
        /\ orderStatusMap' = st.orderStatusMap
        /\ orderPaymentStatusMap' = st.orderPaymentStatusMap
        /\ resp' = [op |-> "syncNow", code |-> 200, syncedOrders |-> st.synced + st.updated]
        /\ UNCHANGED <<stock, timerVars, taskVars>>

\* A run in which no storage call throws.
SyncOrders == RunSync(NoFault)

\* the faults of a run: one call throwing for one external order
ConvertFaults == {[e |-> e, call |-> call] : e \in ExtIds, call \in ConvertCalls}
UpdateFaults == {[e |-> e, call |-> call] : e \in ExtIds, call \in UpdateCalls}

\* ---- the digital-menu application
\* External orders as the digital menu places them (money in twentieths of a
\* cent; 2010 is 100.5 cents).
DigitalOrderInputs ==
    { [status |-> "pending", paymentStatus |-> "", tableNumber |-> 1,
       items |-> << [menuItemName |-> 1, quantity |-> 1, price |-> 2010] >>,
       total |-> 2110],
      [status |-> "confirmed", paymentStatus |-> "paid", tableNumber |-> NULL,
       items |-> <<>>, total |-> 0],
      [status |-> "preparing", paymentStatus |-> "pending",
       tableNumber |-> UnknownTableNumber,
       items |-> << [menuItemName |-> 3, quantity |-> 1, price |-> 2000] >>,
       total |-> 2000] }

ExternalStatusInputs == {"pending", "preparing", "completed"}
ExternalPaymentInputs == {"invoice_generated"}

\* A customer places an order on the digital menu.
ExternalPlace(d) ==
    /\ Cardinality(DOMAIN digital) < MaxExternal
    /\ digital' = (Cardinality(DOMAIN digital) + 1 :>
                      [status |-> d.status, paymentStatus |-> d.paymentStatus,
                       tableNumber |-> d.tableNumber, items |-> d.items,
                       total |-> d.total, syncedToPOS |-> FALSE, posOrderId |-> NULL])
                  @@ digital
    /\ UNCHANGED <<orders, orderItems, tables, invoices, stock, nOrders, nItems, nInvoices,
                   resp, processedOrderIds, orderStatusMap, orderPaymentStatusMap, timerVars,
                   taskVars>>

\* The digital menu moves an order's status.
ExternalSetStatus(e, status) ==
    /\ hasDoc(digital, e)
    /\ digital' = [digital EXCEPT ![e].status = status]
    /\ UNCHANGED <<orders, orderItems, tables, invoices, stock, nOrders, nItems, nInvoices,
                   resp, processedOrderIds, orderStatusMap, orderPaymentStatusMap, timerVars,
                   taskVars>>

\* The digital menu moves an order's payment status.
ExternalSetPayment(e, paymentStatus) ==
    /\ hasDoc(digital, e)
    /\ digital' = [digital EXCEPT ![e].paymentStatus = paymentStatus]
    /\ UNCHANGED <<orders, orderItems, tables, invoices, stock, nOrders, nItems, nInvoices,
                   resp, processedOrderIds, orderStatusMap, orderPaymentStatusMap, timerVars,
                   taskVars>>

\* ------------------------------------------ handlers at await granularity
\* The handlers that write a table, one action per storage call: a step is the
\* call taking effect together with the synchronous code that led to it.  A
\* handler suspended between two calls is a continuation in pend
\* [op, pc, tableId, orderId, ref, read]: the handler, the call it makes next,
\* the table and the order it works on, the reservation, external order or
\* order item it was started for, and the ids of the documents a find() gave
\* it that it still holds.  Handlers interleave at these points.
task(op, pc, tableId, orderId, ref) ==
    [op |-> op, pc |-> pc, tableId |-> tableId, orderId |-> orderId, ref |-> ref,
     read |-> {}]

\* pend with continuation p moved to its next call
advance(p, pc) == (pend \ {p}) \cup {[p EXCEPT !.pc = pc]}

SyncOps == {"convert", "autoCheckout"}

\* a further HTTP request is taken up
canStart == Cardinality({p \in pend : p.op \notin SyncOps}) < MaxInFlight

\* POST /api/orders: storage.createOrder
CreateOrderInsert(tableId) ==
    /\ canStart
    /\ nOrders < MaxOrders
    /\ orders' = createOrder(orders, nOrders + 1,
                     [tableId |-> tableId, status |-> "saved", total |-> 0, ext |-> NULL])
    /\ nOrders' = nOrders + 1
    /\ IF tableId # NULL
       THEN /\ pend' = pend \cup {task("create", "link", tableId, nOrders + 1, NULL)}
            /\ UNCHANGED resp
       ELSE /\ resp' = [op |-> "create", code |-> 200]
            /\ UNCHANGED pend
    /\ UNCHANGED <<orderItems, tables, invoices, stock, nItems, nInvoices, syncVars,
                   reservations, nReservations, broadcasts>>

\* POST /api/orders: storage.updateTableOrder(order.tableId, order.id)
CreateOrderLink(p) ==
    /\ p \in pend /\ p.op = "create" /\ p.pc = "link"
    /\ tables' = updateTableOrder(tables, p.tableId, p.orderId)
    /\ pend' = advance(p, "occupy")
    /\ UNCHANGED <<orders, orderItems, invoices, stock, nOrders, nItems, nInvoices, resp,
                   syncVars, reservations, nReservations, broadcasts>>

\* POST /api/orders: storage.updateTableStatus(order.tableId, "occupied")
CreateOrderOccupy(p) ==
    /\ p \in pend /\ p.op = "create" /\ p.pc = "occupy"
    /\ tables' = updateTableStatus(tables, p.tableId, "occupied")
    /\ pend' = pend \ {p}
    /\ resp' = [op |-> "create", code |-> 200]
    /\ UNCHANGED <<orders, orderItems, invoices, stock, nOrders, nItems, nInvoices,
                   syncVars, reservations, nReservations, broadcasts>>

\* POST /api/orders/:id/complete: storage.completeOrder
CompleteMark(id) ==
    /\ canStart
    /\ IF ~hasDoc(orders, id)
       THEN /\ resp' = [op |-> "complete", code |-> 404]
            /\ UNCHANGED <<orders, pend>>
       ELSE /\ orders' = completeOrder(orders, id)
            /\ IF orders[id].tableId # NULL
               THEN /\ pend' = pend \cup
                                   {task("complete", "unlink", orders[id].tableId, id, NULL)}
                    /\ UNCHANGED resp
               ELSE /\ resp' = [op |-> "complete", code |-> 200]
                    /\ UNCHANGED pend
    /\ UNCHANGED <<orderItems, tables, invoices, stock, nOrders, nItems, nInvoices,
                   syncVars, reservations, nReservations, broadcasts>>

\* POST /api/orders/:id/checkout without split payments: storage.getOrder,
\* getOrderItems and checkoutOrder
CheckoutMark(id) ==
    /\ canStart
    /\ IF ~hasDoc(orders, id)
       THEN /\ resp' = [op |-> "checkout", code |-> 404]
            /\ UNCHANGED <<orders, pend>>
       ELSE /\ orders' = checkoutOrder(orders, id)
            /\ pend' = pend \cup
                  {task("checkout", IF orders[id].tableId # NULL THEN "unlink" ELSE "invoice",
                        orders[id].tableId, id, NULL)}
            /\ UNCHANGED resp
    /\ UNCHANGED <<orderItems, tables, invoices, stock, nOrders, nItems, nInvoices,
                   syncVars, reservations, nReservations, broadcasts>>

\* complete, checkout and auto-checkout: storage.updateTableOrder(tableId, null)
ReleaseUnlink(p) ==
    /\ p \in pend /\ p.op \in {"complete", "checkout", "autoCheckout"} /\ p.pc = "unlink"
    /\ tables' = updateTableOrder(tables, p.tableId, NULL)
    /\ pend' = advance(p, "free")
    /\ UNCHANGED <<orders, orderItems, invoices, stock, nOrders, nItems, nInvoices, resp,
                   syncVars, reservations, nReservations, broadcasts>>

\* complete, checkout and auto-checkout: storage.updateTableStatus(tableId, "free")
ReleaseFree(p) ==
    /\ p \in pend /\ p.op \in {"complete", "checkout", "autoCheckout"} /\ p.pc = "free"
    /\ tables' = updateTableStatus(tables, p.tableId, "free")
    /\ IF p.op = "complete"
       THEN /\ pend' = pend \ {p}
            /\ resp' = [op |-> "complete", code |-> 200]
       ELSE /\ pend' = advance(p, "invoice")
            /\ UNCHANGED resp
    /\ UNCHANGED <<orders, orderItems, invoices, stock, nOrders, nItems, nInvoices,
                   syncVars, reservations, nReservations, broadcasts>>

\* checkout and auto-checkout: getInvoices and createInvoice, and for the
\* auto-checkout the two broadcasts that follow.  The subtotal is of the items
\* read before the order was marked paid, which no action of this granularity
\* changes.
CheckoutInvoice(p) ==
    /\ p \in pend /\ p.op \in {"checkout", "autoCheckout"} /\ p.pc = "invoice"
    /\ nInvoices < MaxInvoices
    /\ invoices' = createInvoice(invoices, nInvoices + 1, p.orderId,
                       itemsSubtotal(orderItems, getOrderItems(orderItems, p.orderId)), "Paid")
    /\ nInvoices' = nInvoices + 1
    /\ IF p.op = "checkout"
       THEN /\ pend' = advance(p, "deduct")
            /\ UNCHANGED broadcasts
       ELSE /\ pend' = pend \ {p}
            /\ broadcasts' = broadcasts \o <<"order_paid", "invoice_created">>
    /\ UNCHANGED <<orders, orderItems, tables, stock, nOrders, nItems, resp, syncVars,
                   reservations, nReservations>>

\* checkout and auto-checkout, the two calls of CheckoutInvoice apart:
\* storage.getInvoices, whose result the handler holds
CheckoutCount(p) ==
    /\ p \in pend /\ p.op \in {"checkout", "autoCheckout"} /\ p.pc = "invoice"
    /\ pend' = (pend \ {p}) \cup {[p EXCEPT !.pc = "insert", !.read = DOMAIN invoices]}
    /\ UNCHANGED <<orders, orderItems, tables, invoices, stock, nOrders, nItems, nInvoices,
                   resp, syncVars, reservations, nReservations, broadcasts>>

\* CheckoutInsert with the invoices counted again at the insertion.
CheckoutInsertCounted(p) ==
    /\ p \in pend /\ p.op \in {"checkout", "autoCheckout"} /\ p.pc = "insert"
    /\ nInvoices < MaxInvoices
    /\ invoices' = createInvoice(invoices, nInvoices + 1, p.orderId,
                       itemsSubtotal(orderItems, getOrderItems(orderItems, p.orderId)), "Paid")
    /\ nInvoices' = nInvoices + 1
    /\ IF p.op = "checkout"
       THEN /\ pend' = advance(p, "deduct")
            /\ UNCHANGED broadcasts
       ELSE /\ pend' = pend \ {p}
            /\ broadcasts' = broadcasts \o <<"order_paid", "invoice_created">>
    /\ UNCHANGED <<orders, orderItems, tables, stock, nOrders, nItems, resp, syncVars,
                   reservations, nReservations>>

\* checkout and auto-checkout: storage.createInvoice with the number made from
\* the length of the list getInvoices returned, and for the auto-checkout the
\* two broadcasts that follow
CheckoutInsert(p) ==
    /\ p \in pend /\ p.op \in {"checkout", "autoCheckout"} /\ p.pc = "insert"
    /\ nInvoices < MaxInvoices
    /\ LET counted == [i \in p.read |-> NULL]
           inv == createInvoice(counted, nInvoices + 1, p.orderId,
                      itemsSubtotal(orderItems, getOrderItems(orderItems, p.orderId)), "Paid")
       IN  invoices' = ((nInvoices + 1) :> inv[nInvoices + 1]) @@ invoices
    /\ nInvoices' = nInvoices + 1
    /\ IF p.op = "checkout"
       THEN /\ pend' = advance(p, "deduct")
            /\ UNCHANGED broadcasts
       ELSE /\ pend' = pend \ {p}
            /\ broadcasts' = broadcasts \o <<"order_paid", "invoice_created">>
    /\ UNCHANGED <<orders, orderItems, tables, stock, nOrders, nItems, resp, syncVars,
                   reservations, nReservations>>

\* the k order items getOrderItems returns first
firstItems(ids, k) == {i \in ids : Cardinality({j \in ids : j < i}) < k}

\* CheckoutDeduct with a deduction that throws taking the payment back.
CheckoutDeductRollback(p, k, thrown) ==
    /\ p \in pend /\ p.op = "checkout" /\ p.pc = "deduct"
    /\ LET ids == getOrderItems(orderItems, p.orderId)
       IN  /\ k \in 0 .. Cardinality(ids)
           /\ ~thrown => k = Cardinality(ids)
           /\ stock' = deductItems(stock, orderItems, firstItems(ids, k))
    /\ orders' = IF thrown THEN updateOrderStatus(orders, p.orderId, "billed") ELSE orders
    /\ pend' = advance(p, IF thrown THEN "caught" ELSE "deducted")
    /\ UNCHANGED <<orderItems, tables, invoices, nOrders, nItems, nInvoices, resp,
                   syncVars, reservations, nReservations, broadcasts>>

\* checkout: storage.deductInventoryForOrder, which deducts for every item of
\* the order, or throws from a storage call once k of the items are done.
CheckoutDeduct(p, k, thrown) ==
    /\ p \in pend /\ p.op = "checkout" /\ p.pc = "deduct"
    /\ LET ids == getOrderItems(orderItems, p.orderId)
       IN  /\ k \in 0 .. Cardinality(ids)
           /\ ~thrown => k = Cardinality(ids)
           /\ stock' = deductItems(stock, orderItems, firstItems(ids, k))
    /\ pend' = advance(p, IF thrown THEN "caught" ELSE "deducted")
    /\ UNCHANGED <<orders, orderItems, tables, invoices, nOrders, nItems, nInvoices, resp,
                   syncVars, reservations, nReservations, broadcasts>>

\* checkout after the deduction settled: inventory_updated unless it threw,
\* then order_paid, invoice_created and the response.
CheckoutRespond(p) ==
    /\ p \in pend /\ p.op = "checkout" /\ p.pc \in {"deducted", "caught"}
    /\ broadcasts' = broadcasts
                         \o (IF p.pc = "deducted" THEN <<"inventory_updated">> ELSE <<>>)
                         \o <<"order_paid", "invoice_created">>
    /\ resp' = [op |-> "checkout", code |-> 200]
    /\ pend' = pend \ {p}
    /\ UNCHANGED <<orders, orderItems, tables, invoices, stock, nOrders, nItems, nInvoices,
                   syncVars, reservations, nReservations>>

\* POST /api/orders/:id/items: storage.createOrderItem
AddItemInsert(urlId, bodyOrderId, input) ==
    /\ Cardinality({p \in pend : p.op = "addItem"}) < MaxAdding
    /\ nItems < MaxItems
    /\ orderItems' = createOrderItem(orderItems, nItems + 1,
                         [orderId |-> bodyOrderId, menuItemId |-> input.menuItemId,
                          quantity |-> input.quantity, price |-> input.price,
                          status |-> "new"])
    /\ nItems' = nItems + 1
    /\ pend' = pend \cup {task("addItem", "read", NULL, urlId, nItems + 1)}
    /\ UNCHANGED <<orders, tables, invoices, stock, nOrders, nInvoices, resp, syncVars,
                   reservations, nReservations, broadcasts>>

\* POST /api/orders/:id/items: storage.getOrderItems(req.params.id)
AddItemRead(p) ==
    /\ p \in pend /\ p.op = "addItem" /\ p.pc = "read"
    /\ pend' = (pend \ {p}) \cup
                   {[p EXCEPT !.pc = "write", !.read = getOrderItems(orderItems, p.orderId)]}
    /\ UNCHANGED <<orders, orderItems, tables, invoices, stock, nOrders, nItems, nInvoices,
                   resp, syncVars, reservations, nReservations, broadcasts>>

\* AddItemWrite with the item list read again at the write.
AddItemWriteFresh(p) ==
    /\ p \in pend /\ p.op = "addItem" /\ p.pc = "write"
    /\ orders' = updateOrderTotal(orders, p.orderId,
                     toFixed2(itemsSubtotal(orderItems, getOrderItems(orderItems, p.orderId))))
    /\ pend' = advance(p, "derive")
    /\ UNCHANGED <<orderItems, tables, invoices, stock, nOrders, nItems, nInvoices, resp,
                   syncVars, reservations, nReservations, broadcasts>>

\* POST /api/orders/:id/items: storage.updateOrderTotal with the total of the
\* items read (no action of this granularity changes or deletes an item)
AddItemWrite(p) ==
    /\ p \in pend /\ p.op = "addItem" /\ p.pc = "write"
    /\ orders' = updateOrderTotal(orders, p.orderId,
                     toFixed2(itemsSubtotal(orderItems, p.read)))
    /\ pend' = advance(p, "derive")
    /\ UNCHANGED <<orderItems, tables, invoices, stock, nOrders, nItems, nInvoices, resp,
                   syncVars, reservations, nReservations, broadcasts>>

\* POST /api/orders/:id/items: storage.getOrder, the table status derived from
\* the items read, and the response
AddItemDerive(p) ==
    /\ p \in pend /\ p.op = "addItem" /\ p.pc = "derive"
    /\ tables' = IF hasDoc(orders, p.orderId) /\ orders[p.orderId].tableId # NULL
                 THEN applyDerivedStatus(tables, orders[p.orderId].tableId, orderItems, p.read)
                 ELSE tables
    /\ resp' = [op |-> "addItem", code |-> 200]
    /\ pend' = pend \ {p}
    /\ UNCHANGED <<orders, orderItems, invoices, stock, nOrders, nItems, nInvoices,
                   syncVars, reservations, nReservations, broadcasts>>

\* storage.getReservationsByTable
getReservationsByTable(rs, tableId) ==
    {r \in DOMAIN rs : rs[r].tableId = tableId /\ rs[r].status = "active"}

\* The end of PATCH (cancel) and DELETE /api/reservations/:id: with no active
\* reservation left on the table, a reserved table without a current order is
\* set free.
freeIfUnreserved(tbls, rs, tableId) ==
    IF /\ getReservationsByTable(rs, tableId) = {}
       /\ hasDoc(tbls, tableId)
       /\ tbls[tableId].status = "reserved"
       /\ tbls[tableId].currentOrderId = NULL
    THEN updateTableStatus(tbls, tableId, "free")
    ELSE tbls

\* POST /api/reservations, start to finish
CreateReservation(tableId) ==
    /\ IF getReservationsByTable(reservations, tableId) # {}
       THEN /\ resp' = [op |-> "reserve", code |-> 409]
            /\ UNCHANGED <<reservations, nReservations, tables>>
       ELSE /\ nReservations < MaxReservations
            /\ reservations' = (nReservations + 1 :> [tableId |-> tableId, status |-> "active"])
                               @@ reservations
            /\ nReservations' = nReservations + 1
            /\ tables' = IF hasDoc(tables, tableId) /\ tables[tableId].status = "free"
                         THEN updateTableStatus(tables, tableId, "reserved")
                         ELSE tables
            /\ resp' = [op |-> "reserve", code |-> 200]
    /\ UNCHANGED <<orders, orderItems, invoices, stock, nOrders, nItems, nInvoices,
                   syncVars, pend, broadcasts>>

\* PATCH /api/reservations/:id with body {status: "cancelled"}, start to finish
CancelReservation(id) ==
    /\ IF ~hasDoc(reservations, id)
       THEN /\ resp' = [op |-> "cancelReservation", code |-> 404]
            /\ UNCHANGED <<reservations, tables>>
       ELSE LET rs == [reservations EXCEPT ![id].status = "cancelled"]
            IN  /\ reservations' = rs
                /\ tables' = freeIfUnreserved(tables, rs, rs[id].tableId)
                /\ resp' = [op |-> "cancelReservation", code |-> 200]
    /\ UNCHANGED <<orders, orderItems, invoices, stock, nOrders, nItems, nInvoices,
                   syncVars, nReservations, pend, broadcasts>>

\* DELETE /api/reservations/:id, start to finish
DeleteReservation(id) ==
    /\ IF ~hasDoc(reservations, id)
       THEN /\ resp' = [op |-> "unreserve", code |-> 404]
            /\ UNCHANGED <<reservations, tables>>
       ELSE LET rs == deleteDoc(reservations, id)
            IN  /\ reservations' = rs
                /\ tables' = freeIfUnreserved(tables, rs, reservations[id].tableId)
                /\ resp' = [op |-> "unreserve", code |-> 200]
    /\ UNCHANGED <<orders, orderItems, invoices, stock, nOrders, nItems, nInvoices,
                   syncVars, nReservations, pend, broadcasts>>

\* POST /api/reservations: getReservationsByTable and createReservation
ReserveInsert(tableId) ==
    /\ canStart
    /\ IF getReservationsByTable(reservations, tableId) # {}
       THEN /\ resp' = [op |-> "reserve", code |-> 409]
            /\ UNCHANGED <<reservations, nReservations, pend>>
       ELSE /\ nReservations < MaxReservations
            /\ reservations' = (nReservations + 1 :> [tableId |-> tableId, status |-> "active"])
                               @@ reservations
            /\ nReservations' = nReservations + 1
            /\ pend' = pend \cup {task("reserve", "read", tableId, NULL, nReservations + 1)}
            /\ UNCHANGED resp
    /\ UNCHANGED <<orders, orderItems, tables, invoices, stock, nOrders, nItems, nInvoices,
                   syncVars, broadcasts>>

\* POST /api/reservations: storage.getTable(reservation.tableId)
ReserveRead(p) ==
    /\ p \in pend /\ p.op = "reserve" /\ p.pc = "read"
    /\ IF hasDoc(tables, p.tableId) /\ tables[p.tableId].status = "free"
       THEN /\ pend' = advance(p, "write")
            /\ UNCHANGED resp
       ELSE /\ pend' = pend \ {p}
            /\ resp' = [op |-> "reserve", code |-> 200]
    /\ UNCHANGED <<orders, orderItems, tables, invoices, stock, nOrders, nItems, nInvoices,
                   syncVars, reservations, nReservations, broadcasts>>

\* POST /api/reservations: storage.updateTableStatus(reservation.tableId, "reserved")
ReserveWrite(p) ==
    /\ p \in pend /\ p.op = "reserve" /\ p.pc = "write"
    /\ tables' = updateTableStatus(tables, p.tableId, "reserved")
    /\ pend' = pend \ {p}
    /\ resp' = [op |-> "reserve", code |-> 200]
    /\ UNCHANGED <<orders, orderItems, invoices, stock, nOrders, nItems, nInvoices,
                   syncVars, reservations, nReservations, broadcasts>>

\* DELETE /api/reservations/:id: getReservation and deleteReservation
UnreserveDelete(id) ==
    /\ canStart
    /\ IF ~hasDoc(reservations, id)
       THEN /\ resp' = [op |-> "unreserve", code |-> 404]
            /\ UNCHANGED <<reservations, pend>>
       ELSE /\ reservations' = deleteDoc(reservations, id)
            /\ pend' = pend \cup {task("unreserve", "read", reservations[id].tableId, NULL, id)}
            /\ UNCHANGED resp
    /\ UNCHANGED <<orders, orderItems, tables, invoices, stock, nOrders, nItems, nInvoices,
                   syncVars, nReservations, broadcasts>>

\* DELETE /api/reservations/:id: getReservationsByTable and getTable
UnreserveRead(p) ==
    /\ p \in pend /\ p.op = "unreserve" /\ p.pc = "read"
    /\ IF /\ getReservationsByTable(reservations, p.tableId) = {}
          /\ hasDoc(tables, p.tableId)
          /\ tables[p.tableId].status = "reserved"
          /\ tables[p.tableId].currentOrderId = NULL
       THEN /\ pend' = advance(p, "write")
            /\ UNCHANGED resp
       ELSE /\ pend' = pend \ {p}
            /\ resp' = [op |-> "unreserve", code |-> 200]
    /\ UNCHANGED <<orders, orderItems, tables, invoices, stock, nOrders, nItems, nInvoices,
                   syncVars, reservations, nReservations, broadcasts>>

\* DELETE /api/reservations/:id: storage.updateTableStatus(reservation.tableId, "free")
UnreserveWrite(p) ==
    /\ p \in pend /\ p.op = "unreserve" /\ p.pc = "write"
    /\ tables' = updateTableStatus(tables, p.tableId, "free")
    /\ pend' = pend \ {p}
    /\ resp' = [op |-> "unreserve", code |-> 200]
    /\ UNCHANGED <<orders, orderItems, invoices, stock, nOrders, nItems, nInvoices,
                   syncVars, reservations, nReservations, broadcasts>>

\* A pass of the synchronizer works on one external order at a time.
syncIdle == \A p \in pend : p.op \notin SyncOps

\* What a pass may hold of external order e: the document as find() returned
\* it when the pass began, now or before syncedToPOS was written.
snapshotsOf(e) ==
    {digital[e], [digital[e] EXCEPT !.syncedToPOS = FALSE, !.posOrderId = NULL]}

\* ConvertBegin with the identifier marked nowhere before the first await.
ConvertBeginUnmarked(e, d) ==
    /\ hasDoc(digital, e)
    /\ shouldIngest(d, processedOrderIds, e)
    /\ nOrders < MaxOrders
    /\ nItems + Len(digital[e].items) <= MaxItems
    /\ orderStatusMap' = (e :> digital[e].status) @@ orderStatusMap
    /\ orderPaymentStatusMap' = (e :> paymentOf(digital[e])) @@ orderPaymentStatusMap
    /\ LET table == findTableByNumberAndFloor(tables, digital[e].tableNumber)
           free  == table # NULL /\ tables[table].status = "free"
       IN  pend' = pend \cup
                  {task("convert", IF free THEN "occupy" ELSE "insert", table, NULL, e)}
    /\ UNCHANGED <<orders, orderItems, tables, invoices, stock, nOrders, nItems, nInvoices,
                   resp, digital, processedOrderIds, timerVars, reservations, nReservations,
                   broadcasts>>

\* syncOrders, ingest of external order e, which the pass read as d, up to
\* findTableByNumberAndFloor: the identifier is marked, the table looked up and
\* its status read.
ConvertBegin(e, d) ==
    /\ hasDoc(digital, e)
    /\ shouldIngest(d, processedOrderIds, e)
    /\ nOrders < MaxOrders
    /\ nItems + Len(digital[e].items) <= MaxItems
    /\ processedOrderIds' = processedOrderIds \cup {e}
    /\ orderStatusMap' = (e :> digital[e].status) @@ orderStatusMap
    /\ orderPaymentStatusMap' = (e :> paymentOf(digital[e])) @@ orderPaymentStatusMap
    /\ LET table == findTableByNumberAndFloor(tables, digital[e].tableNumber)
           free  == table # NULL /\ tables[table].status = "free"
       IN  pend' = pend \cup
                  {task("convert", IF free THEN "occupy" ELSE "insert", table, NULL, e)}
    /\ UNCHANGED <<orders, orderItems, tables, invoices, stock, nOrders, nItems, nInvoices,
                   resp, digital, timerVars, reservations, nReservations, broadcasts>>

\* The conversion begun by a pass that runs alone and has just read e.
ConvertStart(e) == syncIdle /\ ConvertBegin(e, digital[e])

\* convertAndCreatePOSOrder: storage.updateTableStatus(table.id, "occupied")
ConvertOccupy(p) ==
    /\ p \in pend /\ p.op = "convert" /\ p.pc = "occupy"
    /\ tables' = updateTableStatus(tables, p.tableId, "occupied")
    /\ pend' = advance(p, "insert")
    /\ UNCHANGED <<orders, orderItems, invoices, stock, nOrders, nItems, nInvoices, resp,
                   syncVars, reservations, nReservations, broadcasts>>

\* convertAndCreatePOSOrder: storage.createOrder
ConvertInsert(p) ==
    /\ p \in pend /\ p.op = "convert" /\ p.pc = "insert"
    /\ orders' = createOrder(orders, nOrders + 1,
                     [tableId |-> p.tableId, status |-> convertedOrderStatus(digital[p.ref]),
                      total |-> 0, ext |-> p.ref])
    /\ nOrders' = nOrders + 1
    /\ pend' = (pend \ {p}) \cup
                   {[p EXCEPT !.pc = IF p.tableId # NULL THEN "link" ELSE "finish",
                              !.orderId = nOrders + 1]}
    /\ UNCHANGED <<orderItems, tables, invoices, stock, nItems, nInvoices, resp,
                   syncVars, reservations, nReservations, broadcasts>>

\* convertAndCreatePOSOrder: storage.updateTableOrder(tableId, posOrder.id)
ConvertLink(p) ==
    /\ p \in pend /\ p.op = "convert" /\ p.pc = "link"
    /\ tables' = updateTableOrder(tables, p.tableId, p.orderId)
    /\ pend' = advance(p, "finish")
    /\ UNCHANGED <<orders, orderItems, invoices, stock, nOrders, nItems, nInvoices, resp,
                   syncVars, reservations, nReservations, broadcasts>>

\* convertAndCreatePOSOrder from its item loop on, and the ingest pass's
\* updateOne setting syncedToPOS and posOrderId
ConvertFinish(p) ==
    /\ p \in pend /\ p.op = "convert" /\ p.pc = "finish"
    /\ LET st == createCartItems(server, p.orderId, digital[p.ref].items)
       IN  /\ orderItems' = st.orderItems
           /\ nItems' = st.nItems
    /\ orders' = updateOrderTotal(orders, p.orderId, toFixed2(digital[p.ref].total))
    /\ digital' = [digital EXCEPT ![p.ref].syncedToPOS = TRUE,
                                  ![p.ref].posOrderId = p.orderId]
    /\ pend' = pend \ {p}
    /\ UNCHANGED <<tables, invoices, stock, nOrders, nInvoices, resp, processedOrderIds,
                   orderStatusMap, orderPaymentStatusMap, timerVars, reservations,
                   nReservations, broadcasts>>

\* syncOrders, update of external order e whose payment status asks for a
\* checkout its native order has not had: autoCheckoutAndGenerateInvoice up to
\* storage.checkoutOrder.  (The update pass's other branch rewrites item
\* statuses and writes no table.)
AutoCheckoutMark(e) ==
    /\ syncIdle
    /\ hasDoc(digital, e)
    /\ digital[e].syncedToPOS = TRUE
    /\ isInvoiceGenerated(paymentOf(digital[e]))
    /\ hasDoc(orders, digital[e].posOrderId)
    /\ orders[digital[e].posOrderId].status \notin {"paid", "billed"}
    /\ LET o == digital[e].posOrderId
       IN  /\ orders' = checkoutOrder(orders, o)
           /\ pend' = pend \cup
                  {task("autoCheckout", IF orders[o].tableId # NULL THEN "unlink" ELSE "invoice",
                        orders[o].tableId, o, e)}
    /\ UNCHANGED <<orderItems, tables, invoices, stock, nOrders, nItems, nInvoices, resp,
                   syncVars, reservations, nReservations, broadcasts>>

\* ---- the polling service: start, stop and the interval timer
\* loadSyncState: every external order already synced is marked
loadOrder(st, e) ==
    IF st.digital[e].syncedToPOS = TRUE
    THEN setObserved([st EXCEPT !.processedOrderIds = @ \cup {e}],
                     e, st.digital[e].status, paymentOf(st.digital[e]))
    ELSE st

RECURSIVE loadPass(_, _)
loadPass(st, ids) ==
    IF ids = {} THEN st
    ELSE loadPass(loadOrder(st, first(ids)), ids \ {first(ids)})

loadSyncState(st) == loadPass(st, DOMAIN st.digital)

\* getSyncStatus
getSyncStatus ==
    [isRunning |-> isRunning, processedOrders |-> Cardinality(processedOrderIds)]

\* start(), called at boot or by POST /api/digital-menu/sync-start, up to its
\* first await: it returns at once when the service is flagged running.
StartBegin ==
    /\ IF isRunning
       THEN /\ resp' = [op |-> "syncStart", code |-> 200]
            /\ UNCHANGED <<isRunning, nStarts, pend>>
       ELSE /\ nStarts < MaxStarts
            /\ isRunning' = TRUE
            /\ nStarts' = nStarts + 1
            /\ pend' = pend \cup {task("start", "load", NULL, NULL, nStarts + 1)}
            /\ UNCHANGED resp
    /\ UNCHANGED <<orders, orderItems, tables, invoices, stock, nOrders, nItems, nInvoices,
                   digital, processedOrderIds, orderStatusMap, orderPaymentStatusMap,
                   syncInterval, timers, reservations, nReservations, broadcasts>>

\* start(): await this.loadSyncState()
StartLoad(p) ==
    /\ p \in pend /\ p.op = "start" /\ p.pc = "load"
    /\ LET st == loadSyncState(server)
       IN  /\ processedOrderIds' = st.processedOrderIds
           /\ orderStatusMap' = st.orderStatusMap
           /\ orderPaymentStatusMap' = st.orderPaymentStatusMap
    /\ pend' = advance(p, "sync")
    /\ UNCHANGED <<orders, orderItems, tables, invoices, stock, nOrders, nItems, nInvoices,
                   resp, digital, timerVars, reservations, nReservations, broadcasts>>

\* start(): await this.syncOrders(), the initial run
StartSync(p) ==
    /\ p \in pend /\ p.op = "start" /\ p.pc = "sync"
    /\ LET st == syncOrders(server)
       IN  /\ st.nOrders <= MaxOrders
           /\ st.nItems <= MaxItems
           /\ st.nInvoices <= MaxInvoices
           /\ orders' = st.orders
           /\ orderItems' = st.orderItems
           /\ tables' = st.tables
           /\ invoices' = st.invoices
           /\ nOrders' = st.nOrders
           /\ nItems' = st.nItems
           /\ nInvoices' = st.nInvoices
           /\ digital' = st.digital
           /\ processedOrderIds' = st.processedOrderIds
           /\ orderStatusMap' = st.orderStatusMap
           /\ orderPaymentStatusMap' = st.orderPaymentStatusMap
    /\ pend' = advance(p, "schedule")
    /\ UNCHANGED <<stock, resp, timerVars, reservations, nReservations, broadcasts>>

\* start(): this.syncInterval = setInterval(...); the timer takes the number
\* of the call.  The route answers once start() has returned.
StartSchedule(p) ==
    /\ p \in pend /\ p.op = "start" /\ p.pc = "schedule"
    /\ syncInterval' = p.ref
    /\ timers' = timers \cup {p.ref}
    /\ pend' = pend \ {p}
    /\ resp' = [op |-> "syncStart", code |-> 200]
    /\ UNCHANGED <<orders, orderItems, tables, invoices, stock, nOrders, nItems, nInvoices,
                   digital, processedOrderIds, orderStatusMap, orderPaymentStatusMap,
                   isRunning, nStarts, reservations, nReservations, broadcasts>>

\* StopSync clearing the running flag whether or not a timer is set.
StopSyncAlways ==
    /\ timers' = IF syncInterval # NULL THEN timers \ {syncInterval} ELSE timers
    /\ syncInterval' = NULL
    /\ isRunning' = FALSE
    /\ resp' = [op |-> "syncStop", code |-> 200]
    /\ UNCHANGED <<orders, orderItems, tables, invoices, stock, nOrders, nItems, nInvoices,
                   digital, processedOrderIds, orderStatusMap, orderPaymentStatusMap,
                   nStarts, taskVars>>

\* stop(), called by POST /api/digital-menu/sync-stop
StopSync ==
    /\ IF syncInterval # NULL
       THEN /\ timers' = timers \ {syncInterval}
            /\ syncInterval' = NULL
            /\ isRunning' = FALSE
       ELSE UNCHANGED <<timers, syncInterval, isRunning>>
    /\ resp' = [op |-> "syncStop", code |-> 200]
    /\ UNCHANGED <<orders, orderItems, tables, invoices, stock, nOrders, nItems, nInvoices,
                   digital, processedOrderIds, orderStatusMap, orderPaymentStatusMap,
                   nStarts, taskVars>>

\* the callback of interval timer t: a run of syncOrders
Tick(t) == t \in timers /\ SyncOrders

\* ------------------------------------------------------------------- Init
InitStock == [i \in InventoryIds |-> 5]

EmptyResp == [op |-> "none", code |-> 0]

\* A fresh DigitalMenuSyncService over an empty external collection.
InitSync ==
    /\ digital = <<>>
    /\ processedOrderIds = {}
    /\ orderStatusMap = <<>>
    /\ orderPaymentStatusMap = <<>>
    /\ isRunning = FALSE
    /\ syncInterval = NULL
    /\ timers = {}
    /\ nStarts = 0

\* No reservation yet and no handler in flight.
InitTasks ==
    /\ reservations = <<>>
    /\ nReservations = 0
    /\ pend = {}
    /\ broadcasts = <<>>

\* The server with seeded tables and inventory and no orders yet.
Init ==
    /\ orders = <<>>
    /\ orderItems = <<>>
    /\ tables = [t \in Tables |-> [status |-> "free", currentOrderId |-> NULL]]
    /\ invoices = <<>>
    /\ stock = InitStock
    /\ nOrders = 0
    /\ nItems = 0
    /\ nInvoices = 0
    /\ resp = EmptyResp
    /\ InitSync
    /\ InitTasks

\* The server after one order has been taken: POST /api/orders (on table t or
\* on none) followed by k add-item requests for it.
InitOneOrder ==
    \E t \in TableInputs, k \in 0 .. MaxItems :
        \E f \in [1 .. k -> ItemInputs] :
            /\ orderItems = [i \in 1 .. k |->
                                [orderId |-> 1, menuItemId |-> f[i].menuItemId,
                                 quantity |-> f[i].quantity, price |-> f[i].price,
                                 status |-> "new"]]
            /\ orders = (1 :> [tableId |-> t, status |-> "saved",
                               total |-> toFixed2(itemsSubtotal(orderItems, 1 .. k)),
                               ext |-> NULL])
            /\ tables = [u \in Tables |->
                            IF u = t THEN [status |-> "occupied", currentOrderId |-> 1]
                            ELSE [status |-> "free", currentOrderId |-> NULL]]
            /\ invoices = <<>>
            /\ stock = InitStock
            /\ nOrders = 1
            /\ nItems = k
            /\ nInvoices = 0
            /\ resp = EmptyResp
            /\ InitSync
            /\ InitTasks

\* The server with any stock up to MaxStock of each inventory item.
InitWastage ==
    /\ orders = <<>>
    /\ orderItems = <<>>
    /\ tables = [t \in Tables |-> [status |-> "free", currentOrderId |-> NULL]]
    /\ invoices = <<>>
    /\ stock \in [InventoryIds -> 0 .. MaxStock]
    /\ nOrders = 0
    /\ nItems = 0
    /\ nInvoices = 0
    /\ resp = EmptyResp
    /\ InitSync
    /\ InitTasks

\* ------------------------------------------------------------ order taking
Next ==
    \/ \E t \in TableInputs : CreateOrder(t)
    \/ \E o \in OrderIdInputs, b \in OrderIdInputs, inp \in ItemInputs : AddItem(o, b, inp)
    \/ \E i \in 1 .. MaxItems, s \in ItemStatuses : UpdateItemStatus(i, s)
    \/ \E i \in 1 .. MaxItems : DeleteItem(i)

Spec == Init /\ [][Next]_vars

\* --------------------------------------------------------------- checkout
NextCheckout ==
    \E o \in OrderIdInputs, sp \in SplitInputs, fp \in BOOLEAN : Checkout(o, sp, fp)

SpecCheckout == InitOneOrder /\ [][NextCheckout]_vars

\* ----------------------------------------------------------------- wastage
UnknownInventoryId == Cardinality(InventoryIds) + 1

NextWastage ==
    \E inv \in InventoryIds \cup {UnknownInventoryId}, q \in 1 .. MaxStock : Wastage(inv, q)

SpecWastage == InitWastage /\ [][NextWastage]_vars

\* ---------------------------------------------------------- order creation
NextCreate ==
    \/ \E body \in OrderBodyInputs : PostOrder(body)
    \/ \E o \in OrderIdInputs, s \in {"sent_to_kitchen"} : PatchStatus(o, s)

SpecCreate == Init /\ [][NextCreate]_vars

\* ------------------------------------------------------------ reservations
NextReservations ==
    \/ \E t \in TableInputs : CreateOrder(t)
    \/ \E o \in OrderIdInputs : Complete(o)
    \/ \E o \in OrderIdInputs : nInvoices < MaxLifecycleInvoices /\ Checkout(o, <<>>, FALSE)
    \/ \E t \in Tables : CreateReservation(t)
    \/ \E r \in 1 .. MaxReservations : CancelReservation(r)
    \/ \E r \in 1 .. MaxReservations : DeleteReservation(r)

SpecReservations == Init /\ [][NextReservations]_vars

\* -------------------------------------------------------------- lifecycle
NextLifecycle ==
    \/ \E o \in OrderIdInputs, b \in OrderIdInputs, inp \in ItemInputs : AddItem(o, b, inp)
    \/ \E o \in OrderIdInputs, s \in {"saved", "ready_to_bill"} : PatchStatus(o, s)
    \/ \E o \in OrderIdInputs : Complete(o)
    \/ \E o \in OrderIdInputs : Kot(o)
    \/ \E o \in OrderIdInputs, p \in BOOLEAN :
           (p => nInvoices < MaxLifecycleInvoices) /\ Save(o, p)
    \/ \E o \in OrderIdInputs : nInvoices < MaxLifecycleInvoices /\ Bill(o)
    \/ \E o \in OrderIdInputs : nInvoices < MaxLifecycleInvoices /\ Checkout(o, <<>>, FALSE)

SpecLifecycle == InitOneOrder /\ [][NextLifecycle]_vars

\* --------------------------------------------------------------- invoices
NextInvoices ==
    \/ \E o \in OrderIdInputs : Save(o, TRUE)
    \/ \E o \in OrderIdInputs : Bill(o)
    \/ \E o \in OrderIdInputs : Checkout(o, <<>>, FALSE)
    \/ \E i \in 1 .. MaxInvoices : DeleteInvoice(i)

SpecInvoices == InitOneOrder /\ [][NextInvoices]_vars

\* ------------------------------------------------------------ synchronizer
NextSync ==
    \/ \E d \in DigitalOrderInputs : ExternalPlace(d)
    \/ \E e \in ExtIds, s \in ExternalStatusInputs : ExternalSetStatus(e, s)
    \/ \E e \in ExtIds, p \in ExternalPaymentInputs : ExternalSetPayment(e, p)
    \/ SyncOrders

SpecSync == Init /\ [][NextSync]_vars

\* ------------------------------------------------------ checkout, stepwise
\* Checkout requests without split payments for the order taken, one storage
\* call at a time, the inventory deduction failing or not.
NextCheckoutSteps ==
    \/ \E o \in OrderIdInputs : CheckoutMark(o)
    \/ \E p \in pend : ReleaseUnlink(p)
    \/ \E p \in pend : ReleaseFree(p)
    \/ \E p \in pend : CheckoutInvoice(p)
    \/ \E p \in pend, k \in 0 .. MaxItems, thrown \in BOOLEAN : CheckoutDeduct(p, k, thrown)
    \/ \E p \in pend : CheckoutRespond(p)

SpecCheckoutSteps == InitOneOrder /\ [][NextCheckoutSteps]_vars

\* -------------------------------------------- synchronizer, calls throwing
\* Runs whose conversions may throw.
NextIngestFaults ==
    \/ \E d \in DigitalOrderInputs : ExternalPlace(d)
    \/ SyncOrders
    \/ \E fault \in ConvertFaults : RunSync(fault)

SpecIngestFaults == Init /\ [][NextIngestFaults]_vars

\* Runs whose updates may throw.
NextUpdateFaults ==
    \/ \E d \in DigitalOrderInputs : ExternalPlace(d)
    \/ \E e \in ExtIds : ExternalSetStatus(e, "preparing")
    \/ \E e \in ExtIds, p \in ExternalPaymentInputs : ExternalSetPayment(e, p)
    \/ SyncOrders
    \/ \E fault \in UpdateFaults : RunSync(fault)

SpecUpdateFaults == Init /\ [][NextUpdateFaults]_vars

\* ------------------------------------------------------ overlapping passes
\* Up to MaxPasses runs of syncOrders at once (interval ticks and sync-now
\* requests), each suspended in the conversion of one external order.
NextOverlap ==
    \/ \E d \in DigitalOrderInputs : ExternalPlace(d)
    \/ \E e \in DOMAIN digital : \E d \in snapshotsOf(e) :
           /\ Cardinality({p \in pend : p.op \in SyncOps}) < MaxPasses
           /\ ConvertBegin(e, d)
    \/ \E p \in pend : ConvertOccupy(p)
    \/ \E p \in pend : nOrders < MaxOrders /\ ConvertInsert(p)
    \/ \E p \in pend : ConvertLink(p)
    \/ \E p \in pend :
           /\ p.op = "convert"
           /\ nItems + Len(digital[p.ref].items) <= MaxItems
           /\ ConvertFinish(p)

SpecOverlap == Init /\ [][NextOverlap]_vars

\* ---------------------------------------------------- add-item, stepwise
\* Up to MaxAdding add-item requests at once on the order taken.
NextAddItemSteps ==
    \/ \E o \in OrderIdInputs, inp \in ItemInputs : AddItemInsert(o, o, inp)
    \/ \E p \in pend : AddItemRead(p)
    \/ \E p \in pend : AddItemWrite(p)
    \/ \E p \in pend : AddItemDerive(p)

SpecAddItemSteps == InitOneOrder /\ [][NextAddItemSteps]_vars

\* ----------------------------------------------------- tables, interleaved
\* External orders as the digital menu places them on a table.
TableOrderInputs == {d \in DigitalOrderInputs : d.tableNumber \in Tables}

\* ------------------------------------------------------------ table links
\* Orders created, moved through their statuses, billed, completed and cleared.
NextLinks ==
    \/ \E t \in TableInputs : CreateOrder(t)
    \/ \E o \in OrderIdInputs, i \in DOMAIN OrderStatuses : PatchStatus(o, OrderStatuses[i])
    \/ \E o \in OrderIdInputs : Complete(o)
    \/ \E o \in OrderIdInputs : nInvoices < MaxLifecycleInvoices /\ Checkout(o, <<>>, FALSE)
    \/ \E types \in ClearTypeInputs : ClearData(types)

SpecLinks == Init /\ [][NextLinks]_vars

\* ------------------------------------------------------- polling service
\* start() and stop() called in any order while the digital menu takes orders.
NextPolling ==
    \/ \E d \in TableOrderInputs :
           Cardinality(DOMAIN digital) < MaxTableExternal /\ ExternalPlace(d)
    \/ \E e \in ExtIds : ExternalSetStatus(e, "preparing")
    \/ StartBegin
    \/ \E p \in pend : StartLoad(p)
    \/ \E p \in pend : StartSync(p)
    \/ \E p \in pend : StartSchedule(p)
    \/ StopSync
    \/ \E t \in 1 .. MaxStarts : Tick(t)

SpecPolling == Init /\ [][NextPolling]_vars

\* ------------------------------------------------------- invoice numbers
\* A checkout request for the order taken beside the conversion and the
\* auto-checkout of one external order, getInvoices and createInvoice apart.
NextInvoiceNumbers ==
    \/ \E o \in OrderIdInputs : CheckoutMark(o)
    \/ \E p \in pend : ReleaseUnlink(p)
    \/ \E p \in pend : ReleaseFree(p)
    \/ \E p \in pend : CheckoutCount(p)
    \/ \E p \in pend : CheckoutInsert(p)
    \/ \E p \in pend : CheckoutDeduct(p, Cardinality(getOrderItems(orderItems, p.orderId)), FALSE)
    \/ \E p \in pend : CheckoutRespond(p)
    \/ \E d \in TableOrderInputs :
           Cardinality(DOMAIN digital) < MaxTableExternal /\ ExternalPlace(d)
    \/ \E e \in ExtIds : ExternalSetPayment(e, "invoice_generated")
    \/ \E e \in ExtIds : ConvertStart(e)
    \/ \E p \in pend : ConvertOccupy(p)
    \/ \E p \in pend : ConvertInsert(p)
    \/ \E p \in pend : ConvertLink(p)
    \/ \E p \in pend : ConvertFinish(p)
    \/ \E e \in ExtIds : AutoCheckoutMark(e)

SpecInvoiceNumbers == InitOneOrder /\ [][NextInvoiceNumbers]_vars

NextTables ==
    \/ \E t \in TableInputs : CreateOrderInsert(t)
    \/ \E p \in pend : CreateOrderLink(p)
    \/ \E p \in pend : CreateOrderOccupy(p)
    \/ \E o \in OrderIdInputs : CompleteMark(o)
    \/ \E o \in OrderIdInputs : CheckoutMark(o)
    \/ \E p \in pend : ReleaseUnlink(p)
    \/ \E p \in pend : ReleaseFree(p)
    \/ \E p \in pend : nInvoices < MaxLifecycleInvoices /\ CheckoutInvoice(p)
    \/ \E p \in pend : CheckoutDeduct(p, Cardinality(getOrderItems(orderItems, p.orderId)), FALSE)
    \/ \E p \in pend : CheckoutRespond(p)
    \/ \E t \in Tables : ReserveInsert(t)
    \/ \E p \in pend : ReserveRead(p)
    \/ \E p \in pend : ReserveWrite(p)
    \/ \E r \in 1 .. MaxReservations : UnreserveDelete(r)
    \/ \E p \in pend : UnreserveRead(p)
    \/ \E p \in pend : UnreserveWrite(p)
    \/ \E d \in TableOrderInputs :
           Cardinality(DOMAIN digital) < MaxTableExternal /\ ExternalPlace(d)
    \/ \E e \in ExtIds : ExternalSetPayment(e, "invoice_generated")
    \/ \E e \in ExtIds : ConvertStart(e)
    \/ \E p \in pend : ConvertOccupy(p)
    \/ \E p \in pend : ConvertInsert(p)
    \/ \E p \in pend : ConvertLink(p)
    \/ \E p \in pend : ConvertFinish(p)
    \/ \E e \in ExtIds : AutoCheckoutMark(e)

SpecTables == Init /\ [][NextTables]_vars

\* ================================================================= claims
stores == <<orders, orderItems, tables, invoices, stock>>

\* C1: a checkout of an order that is already paid is rejected and changes
\* nothing: no second invoice, no second inventory deduction, no table
\* detached or freed.
C1_CheckoutNotRepeatable ==
    [][\A o \in OrderIdInputs, sp \in SplitInputs, fp \in BOOLEAN :
          (hasDoc(orders, o) /\ orders[o].status = "paid" /\ Checkout(o, sp, fp))
              => (resp'.code # 200 /\ UNCHANGED stores)]_vars

\* C2: after an add-item or delete-item request completes, every order's
\* stored total is the two-decimal sum of price * quantity over the items
\* whose orderId is that order.
C2_TotalInvariant ==
    (resp.op \in {"addItem", "deleteItem"} /\ resp.code = 200) =>
        \A o \in DOMAIN orders :
            orders[o].total =
                toFixed2(itemsSubtotal(orderItems, getOrderItems(orderItems, o)))

\* The split amounts' sum and the bill differ by more than 0.01, as decimals.
splitsOffBy(o, sp) ==
    LET subtotal == itemsSubtotal(orderItems, getOrderItems(orderItems, o))
    IN  Abs(splitSumOf(sp) - (subtotal + taxOf(subtotal)))

\* C4: a checkout with a non-empty split list is rejected before any write
\* when the split sum is off the total by more than 0.01 or an amount is <= 0,
\* and proceeds when the sum is within 0.01 and every amount is > 0.
C4_SplitValidation ==
    [][\A o \in OrderIdInputs, sp \in SplitInputs, fp \in BOOLEAN :
          (hasDoc(orders, o) /\ Len(sp) > 0 /\ Checkout(o, sp, fp)) =>
              IF \/ splitsOffBy(o, sp) > ToleranceCents * UnitsPerCent
                 \/ \E k \in DOMAIN sp : sp[k] <= 0
              THEN resp'.code = 400 /\ UNCHANGED stores
              ELSE resp'.code = 200 /\ orders'[o].status = "paid"]_vars

\* The place of a status in the lifecycle saved -> ... -> completed.
rank(status) == CHOOSE k \in DOMAIN OrderStatuses : OrderStatuses[k] = status

\* C6: no operation moves an order to an earlier status of the lifecycle
\* saved -> sent_to_kitchen -> ready_to_bill -> billed -> paid -> completed.
C6_StatusOnlyAdvances ==
    [][\A o \in DOMAIN orders :
          hasDoc(orders', o) => rank(orders'[o].status) >= rank(orders[o].status)]_vars

\* C7: add item, send-to-kitchen, save, bill, checkout and complete on an
\* order id that does not exist answer NotFound and change no stored record.
C7_UnknownOrderRejected ==
    [][\A o \in OrderIdInputs :
          (/\ ~hasDoc(orders, o)
           /\ \/ \E b \in OrderIdInputs, inp \in ItemInputs : AddItem(o, b, inp)
              \/ Kot(o)
              \/ \E p \in BOOLEAN : Save(o, p)
              \/ Bill(o)
              \/ Checkout(o, <<>>, FALSE)
              \/ Complete(o))
              => (resp'.code = 404 /\ UNCHANGED stores)]_vars

\* C8: the Nth invoice ever created carries the number N zero-padded to four
\* digits, and no two stored invoices share a number.
C8_InvoiceNumbering ==
    /\ \A k \in DOMAIN invoices : invoices[k].invoiceNumber = padStart(digits(k), 4)
    /\ \A j, k \in DOMAIN invoices :
           j # k => invoices[j].invoiceNumber # invoices[k].invoiceNumber

\* What one checkout of orderId takes from inventory item inv: the sum, over
\* the order's items whose menu item has a recipe and over that recipe's
\* ingredients naming inv, of ingredient quantity * item quantity.
claimedDeduction(its, orderId, inv) ==
    LET ids == getOrderItems(its, orderId)
        ofItem(i) ==
            LET r  == getRecipeByMenuItemId(its[i].menuItemId)
                gs == {g \in DOMAIN RecipeIngredients :
                          /\ RecipeIngredients[g].recipeId = r
                          /\ RecipeIngredients[g].inventoryItemId = inv}
            IN  IF r = NULL THEN 0
                ELSE SumOver(gs, [g \in gs |->
                                     RecipeIngredients[g].quantity * its[i].quantity])
    IN  SumOver(ids, [i \in ids |-> ofItem(i)])

claimedTableStatus(its, ids, old) ==
    IF ids = {} THEN old
    ELSE IF \A i \in ids : its[i].status = "served" THEN "served"
    ELSE IF \A i \in ids : its[i].status \in {"ready", "served"} THEN "ready"
    ELSE IF \E i \in ids : its[i].status = "preparing" THEN "preparing"
    ELSE IF \E i \in ids : its[i].status = "new" THEN "occupied"
    ELSE old

\* C10: add-item and update-item-status leave the order's table with the
\* status the precedence served > ready > preparing > occupied derives from the
\* order's items, and leave it unchanged when the order has no items.
C10_TableStatusDerivation ==
    [][/\ \A o \in OrderIdInputs, b \in OrderIdInputs, inp \in ItemInputs :
              (AddItem(o, b, inp) /\ hasDoc(orders, o) /\ orders[o].tableId # NULL) =>
                  tables'[orders[o].tableId].status =
                      claimedTableStatus(orderItems', getOrderItems(orderItems', o),
                                         tables[orders[o].tableId].status)
       /\ \A i \in DOMAIN orderItems, s \in ItemStatuses :
              LET o == orderItems[i].orderId
              IN  (UpdateItemStatus(i, s) /\ hasDoc(orders, o) /\ orders[o].tableId # NULL) =>
                      tables'[orders[o].tableId].status =
                          claimedTableStatus(orderItems', getOrderItems(orderItems', o),
                                             tables[orders[o].tableId].status)]_vars

\* The native orders converted from external order e.
nativeOrdersOf(os, e) == {o \in DOMAIN os : os[o].ext = e}

\* C3: a run of syncOrders creates exactly one native order for an external
\* order that is pending or confirmed and has none yet, and creates none for
\* any other external order: one it converted on an earlier run, whatever its
\* status now, or one that is not pending or confirmed.
C3_ExactlyOneNativeOrder ==
    [][SyncOrders =>
          \A e \in DOMAIN digital :
              IF /\ digital[e].status \in {"pending", "confirmed"}
                 /\ nativeOrdersOf(orders, e) = {}
              THEN Cardinality(nativeOrdersOf(orders', e)) = 1
              ELSE nativeOrdersOf(orders', e) = nativeOrdersOf(orders, e)]_vars

\* C3 witness: a run of syncOrders has just returned 0 over a collection that
\* holds a pending order converted by an earlier run, which still has exactly
\* one native order.
C3_Witness ==
    /\ resp = [op |-> "syncNow", code |-> 200, syncedOrders |-> 0]
    /\ \E e \in DOMAIN digital :
           /\ digital[e].status = "pending"
           /\ digital[e].syncedToPOS = TRUE
           /\ e \in processedOrderIds
           /\ Cardinality(nativeOrdersOf(orders, e)) = 1

\* C5: at every point between two storage calls of the order, billing,
\* reservation and synchronizer handlers, a table with a current order is not
\* free.
C5_OccupiedWhileBound ==
    \A t \in DOMAIN tables :
        tables[t].currentOrderId # NULL => tables[t].status # "free"

\* C11: the order a create-order request produces has status saved and total
\* 0 when the request completes, whatever the request body carried.
C11_CreatedSavedZero ==
    [][\A body \in OrderBodyInputs :
          PostOrder(body) =>
              /\ orders'[nOrders'].status = "saved"
              /\ orders'[nOrders'].total = 0]_vars

\* C12: after every reservation, order and billing operation, a table with
\* an active reservation and no current order has status reserved.
C12_ReservedWhileUnconsumed ==
    \A t \in DOMAIN tables :
        (/\ getReservationsByTable(reservations, t) # {}
         /\ tables[t].currentOrderId = NULL)
            => tables[t].status = "reserved"

\* The invoices of order o.
invoicesOf(invs, o) == {i \in DOMAIN invs : invs[i].orderId = o}

\* C13: a run of syncOrders creates an invoice for the native order of an
\* external order only if that order has no invoice yet and is not already
\* paid or billed: the auto-checkout happens at most once.
C13_AutoCheckoutOnce ==
    [][SyncOrders =>
          \A e \in DOMAIN digital : \A o \in nativeOrdersOf(orders', e) :
              invoicesOf(invoices', o) # invoicesOf(invoices, o) =>
                  /\ invoicesOf(invoices, o) = {}
                  /\ hasDoc(orders, o) => orders[o].status \notin {"paid", "billed"}]_vars

\* The native orders that a step gives a new invoice.
newlyInvoiced == {o \in DOMAIN orders' : invoicesOf(invoices', o) # invoicesOf(invoices, o)}

\* What POST /api/orders/:id/checkout with no splitPayments leaves for order o
\* taken from the state before the step: order, table, invoice amounts.
checkedOutLike(o) ==
    LET subtotal == itemsSubtotal(orderItems', getOrderItems(orderItems', o))
    IN  /\ orders'[o].status = "paid"
        /\ orders'[o].tableId # NULL =>
               /\ tables'[orders'[o].tableId].currentOrderId = NULL
               /\ tables'[orders'[o].tableId].status = "free"
        /\ \E i \in invoicesOf(invoices', o) \ invoicesOf(invoices, o) :
               /\ invoices'[i].status = "Paid"
               /\ invoices'[i].subtotal = toFixed2(subtotal)
               /\ invoices'[i].tax = toFixed2(taxOf(subtotal))
               /\ invoices'[i].total = toFixed2(subtotal + taxOf(subtotal))

\* C14: a synchronizer pass that auto-checks orders out leaves, for each of
\* them, what the HTTP checkout without split payments leaves: the order paid,
\* its table detached and free, a Paid invoice with the same subtotal, tax and
\* total, and the inventory deducted per recipe for the items of those orders.
C14_AutoCheckoutAsCheckout ==
    [][SyncOrders =>
          /\ \A o \in newlyInvoiced : checkedOutLike(o)
          /\ stock' = deductItems(stock, orderItems',
                          {i \in DOMAIN orderItems' : orderItems'[i].orderId \in newlyInvoiced})]_vars

\* the table of the checkout continuing as p is detached and free in tbls
released(tbls, p) ==
    p.tableId # NULL =>
        /\ tbls[p.tableId].currentOrderId = NULL
        /\ tbls[p.tableId].status = "free"

\* the checkouts in flight that have created their invoice
withInvoice == {q \in pend : q.op = "checkout" /\ q.pc \in {"deduct", "deducted", "caught"}}

\* C15: while a validated checkout request runs, its order is paid from the
\* first effect on; it writes the table before it has an invoice; it creates
\* the invoice once the table is detached and free; it deducts the stock once
\* its invoice exists; its broadcasts come last, order_paid before
\* invoice_created; and when the deduction threw, the request still ends with
\* the order paid, the table free and the invoice in place.
C15_CheckoutEffectOrder ==
    [][\A p \in pend : p.op = "checkout" =>
          /\ orders[p.orderId].status = "paid"
          /\ orders'[p.orderId].status = "paid"
          /\ (ReleaseUnlink(p) \/ ReleaseFree(p)) =>
                 /\ p \notin withInvoice
                 /\ UNCHANGED <<invoices, stock, broadcasts>>
          /\ CheckoutInvoice(p) =>
                 /\ released(tables, p)
                 /\ UNCHANGED <<tables, stock, broadcasts>>
          /\ \A k \in 0 .. MaxItems, thrown \in BOOLEAN :
                 CheckoutDeduct(p, k, thrown) =>
                     /\ released(tables, p)
                     /\ p \in withInvoice
                     /\ invoicesOf(invoices, p.orderId) # {}
                     /\ UNCHANGED <<tables, invoices, broadcasts>>
          /\ CheckoutRespond(p) =>
                 /\ released(tables', p)
                 /\ \E i \in invoicesOf(invoices', p.orderId) : invoices'[i].status = "Paid"
                 /\ UNCHANGED <<tables, invoices, stock>>
                 /\ \/ /\ broadcasts' = broadcasts \o
                                            <<"inventory_updated", "order_paid", "invoice_created">>
                       /\ p.pc = "deducted"
                    \/ /\ broadcasts' = broadcasts \o <<"order_paid", "invoice_created">>
                       /\ p.pc = "caught"
                 /\ resp' = [op |-> "checkout", code |-> 200]]_vars

\* A checkout of a table's order has answered although its deduction threw
\* after part of the stock was written.
C15_Witness ==
    /\ broadcasts = <<"order_paid", "invoice_created">>
    /\ resp = [op |-> "checkout", code |-> 200]
    /\ pend = {}
    /\ stock # InitStock
    /\ \E o \in DOMAIN orders :
           /\ orders[o].status = "paid"
           /\ orders[o].tableId # NULL
           /\ tables[orders[o].tableId].status = "free"
           /\ invoicesOf(invoices, o) # {}
           /\ stock # deductInventoryForOrder(InitStock, orderItems, o)

\* C16: however often the conversion of an external order throws and is
\* retried, no external order has more than one native order.
C16_OneNativeOrderUnderRetry ==
    \A e \in DOMAIN digital : Cardinality(nativeOrdersOf(orders, e)) <= 1

\* the run meets external order x unsynced, pending or confirmed, and unmarked
eligible(x) == hasDoc(digital, x) /\ shouldIngest(digital[x], processedOrderIds, x)

\* C19: when the conversion of an external order throws in a run, the run
\* leaves its identifier out of the processed set and of both maps and leaves
\* its external record as it was, so that the next run's guards let it in
\* again; and every other order the run met unsynced is converted and marked
\* synced.
C19_IngestFailureIsolated ==
    [][\A fault \in ConvertFaults :
          (/\ RunSync(fault)
           /\ eligible(fault.e)
           /\ reached(digital[fault.e], fault.call))
              => /\ fault.e \notin processedOrderIds'
                 /\ fault.e \notin DOMAIN orderStatusMap'
                 /\ fault.e \notin DOMAIN orderPaymentStatusMap'
                 /\ digital'[fault.e] = digital[fault.e]
                 /\ shouldIngest(digital'[fault.e], processedOrderIds', fault.e)
                 /\ \A x \in DOMAIN digital \ {fault.e} :
                        eligible(x) =>
                            /\ digital'[x].syncedToPOS = TRUE
                            /\ x \in processedOrderIds'
                            /\ digital'[x].posOrderId \in nativeOrdersOf(orders', x)]_vars

\* A run has left external order 1 unsynced and unmarked after writing part of
\* its native order, and has synced external order 2.
C19_Witness ==
    /\ DOMAIN digital = {1, 2}
    /\ digital[1].syncedToPOS = FALSE
    /\ 1 \notin processedOrderIds
    /\ 1 \notin DOMAIN orderStatusMap
    /\ nativeOrdersOf(orders, 1) # {}
    /\ digital[2].syncedToPOS = TRUE
    /\ nativeOrdersOf(orders, 2) # {}

\* external order e is synced and the run finds its status or payment status
\* different from the cached one
changeDetected(e) ==
    /\ hasDoc(digital, e)
    /\ digital[e].syncedToPOS = TRUE
    /\ e \in DOMAIN orderStatusMap
    /\ e \in DOMAIN orderPaymentStatusMap
    /\ \/ orderStatusMap[e] # digital[e].status
       \/ orderPaymentStatusMap[e] # paymentOf(digital[e])

\* applying the change of e makes the storage call
updateReaches(e, call) ==
    LET d == digital[e]
        invoiced == isInvoiceGenerated(d.paymentStatus) \/ isInvoiceGenerated(d.status)
    IN  CASE call = "getOrder" -> TRUE
          [] call = "checkoutOrder" -> invoiced /\ hasDoc(orders, d.posOrderId)
          [] OTHER -> /\ ~invoiced
                      /\ \E i \in getOrderItems(orderItems, d.posOrderId) :
                             orderItems[i].status # statusMapping(d.status)

\* C18: when a storage call throws while a run applies a detected status or
\* payment-status change to the native order, the run leaves the cached status
\* and payment status of that external order as they were.
C18_FailedUpdateStaysStale ==
    [][\A fault \in UpdateFaults :
          (/\ RunSync(fault)
           /\ changeDetected(fault.e)
           /\ updateReaches(fault.e, fault.call))
              => /\ orderStatusMap'[fault.e] = orderStatusMap[fault.e]
                 /\ orderPaymentStatusMap'[fault.e] = orderPaymentStatusMap[fault.e]]_vars

\* the conversions of external order e begun and not past storage.createOrder
converting(e) == {p \in pend : p.op = "convert" /\ p.ref = e /\ p.orderId = NULL}

\* C17: with runs of syncOrders overlapping, an external order is converted by
\* at most one of them: the conversions of it in flight and the native orders
\* made for it number at most one.
C17_OverlapConvertsOnce ==
    \A e \in DOMAIN digital :
        Cardinality(converting(e)) + Cardinality(nativeOrdersOf(orders, e)) <= 1

\* Two runs are suspended in conversions at once, one of them past
\* storage.createOrder for an external order not yet marked syncedToPOS.
C17_Witness ==
    \E p \in pend, q \in pend :
        /\ p # q
        /\ p.op = "convert" /\ q.op = "convert"
        /\ p.orderId # NULL
        /\ digital[p.ref].syncedToPOS = FALSE
        /\ p.ref \in processedOrderIds

\* the items of order o differ between the two states of a step
itemsTouched(o) ==
    \/ getOrderItems(orderItems', o) # getOrderItems(orderItems, o)
    \/ \E i \in getOrderItems(orderItems, o) : orderItems'[i].status # orderItems[i].status

\* C20: a delete-item request, and a synchronizer run that rewrites the item
\* statuses of an order, leave the table of a table-bound order that still has
\* items with the status the precedence derives from those items.
C20_DerivedAfterEveryItemChange ==
    [][/\ \A i \in DOMAIN orderItems :
              LET o == orderItems[i].orderId
              IN  (/\ DeleteItem(i)
                   /\ hasDoc(orders, o) /\ orders[o].tableId # NULL
                   /\ getOrderItems(orderItems', o) # {})
                      => tables'[orders[o].tableId].status =
                             claimedTableStatus(orderItems', getOrderItems(orderItems', o),
                                                tables[orders[o].tableId].status)
       /\ SyncOrders =>
              \A o \in DOMAIN orders :
                  (/\ orders[o].tableId # NULL
                   /\ tables'[orders[o].tableId].currentOrderId = o
                   /\ itemsTouched(o))
                      => tables'[orders[o].tableId].status =
                             claimedTableStatus(orderItems', getOrderItems(orderItems', o),
                                                tables[orders[o].tableId].status)]_vars

\* C21: a delete-item request that finds its item removes that item and no
\* other, rewrites no field but the total of the item's order, and leaves the
\* tables, every order's status and table, the invoices and the stock alone.
C21_DeleteItemFrame ==
    [][\A i \in DOMAIN orderItems :
          DeleteItem(i) =>
              /\ DOMAIN orderItems' = DOMAIN orderItems \ {i}
              /\ \A j \in DOMAIN orderItems' : orderItems'[j] = orderItems[j]
              /\ DOMAIN orders' = DOMAIN orders
              /\ \A x \in DOMAIN orders :
                     /\ orders'[x].status = orders[x].status
                     /\ orders'[x].tableId = orders[x].tableId
                     /\ x # orderItems[i].orderId => orders'[x] = orders[x]
              /\ UNCHANGED <<tables, invoices, stock>>]_vars

\* A delete-item request has just taken one of two items from the order bound
\* to a table.
C21_Witness ==
    /\ resp = [op |-> "deleteItem", code |-> 200]
    /\ nItems = 2
    /\ \E j \in DOMAIN orderItems :
           /\ DOMAIN orderItems = {j}
           /\ hasDoc(orders, orderItems[j].orderId)
           /\ orders[orderItems[j].orderId].tableId # NULL
           /\ orders[orderItems[j].orderId].total # 0

\* C22: a wastage of quantity q against an inventory item with stock s is
\* rejected, the stock unchanged, when s - q < 0, and otherwise leaves the
\* stock at s - q; no stock is negative afterwards.
C22_WastageExact ==
    [][\A inv \in InventoryIds, q \in 1 .. MaxStock :
          Wastage(inv, q) =>
              IF stock[inv] - q < 0
              THEN resp'.code = 400 /\ stock' = stock
              ELSE /\ stock' = [stock EXCEPT ![inv] = @ - q]
                   /\ stock'[inv] >= 0]_vars

\* C23: the total an add-item request writes is the sum over the items it
\* read, whatever has been inserted since; two requests on one order can
\* therefore both answer and leave a total that is not the sum over its items.
C23_TotalFromStaleRead ==
    [][\A p \in pend :
          AddItemWrite(p) =>
              /\ hasDoc(orders, p.orderId) =>
                     orders'[p.orderId].total = toFixed2(itemsSubtotal(orderItems, p.read))
              /\ orderItems' = orderItems]_vars

\* Both add-item requests on order 1 have answered, and the stored total is
\* not the sum over its two items.
C23_Witness ==
    /\ pend = {}
    /\ resp = [op |-> "addItem", code |-> 200]
    /\ nItems = 2
    /\ getOrderItems(orderItems, 1) = {1, 2}
    /\ orders[1].total # toFixed2(itemsSubtotal(orderItems, {1, 2}))

\* C24: the number of the invoice a checkout or an auto-checkout stores is
\* made from the count it read, whatever has been stored since; a checkout
\* and an auto-checkout of two orders can therefore both finish and store two
\* invoices with the same number.
C24_NumberFromStaleCount ==
    [][\A p \in pend :
          CheckoutInsert(p) =>
              /\ DOMAIN invoices' = DOMAIN invoices \cup {nInvoices + 1}
              /\ invoices'[nInvoices + 1].invoiceNumber =
                     padStart(digits(Cardinality(p.read) + 1), 4)
              /\ invoices'[nInvoices + 1].orderId = p.orderId
              /\ \A i \in DOMAIN invoices : invoices'[i] = invoices[i]]_vars

\* Both operations have finished and two invoices of different orders carry
\* the same number.
C24_Witness ==
    /\ pend = {}
    /\ \E i, j \in DOMAIN invoices :
           /\ i # j
           /\ invoices[i].orderId # invoices[j].orderId
           /\ invoices[i].invoiceNumber = invoices[j].invoiceNumber

\* C25: a syncOrders run that starts right after a completed run, nothing
\* having changed in between and no call failing, returns 0 and writes nothing
\* to orders, order items, tables or invoices.
C25_SecondPassIdle ==
    [][SyncOrders =>
          LET again == syncOrders(server')
          IN  /\ again.synced + again.updated = 0
              /\ again.orders = orders'
              /\ again.orderItems = orderItems'
              /\ again.tables = tables'
              /\ again.invoices = invoices']_vars

\* C26: every order on a table whose status is neither paid nor completed is
\* the order its table's currentOrderId names.
C26_ActiveOrderLinked ==
    \A o \in DOMAIN orders :
        (orders[o].tableId # NULL /\ orders[o].status \notin {"paid", "completed"})
            => /\ hasDoc(tables, orders[o].tableId)
               /\ tables[orders[o].tableId].currentOrderId = o

\* C27: an add-item request for an order that is paid or completed leaves
\* the status of every table as it was.
C27_PaidOrderLeavesTable ==
    [][\A o \in OrderIdInputs, b \in OrderIdInputs, inp \in ItemInputs :
          (/\ AddItem(o, b, inp)
           /\ hasDoc(orders, o)
           /\ orders[o].status \in {"paid", "completed"})
              => \A t \in DOMAIN tables : tables'[t].status = tables[t].status]_vars

\* C28: once stop() has returned, getSyncStatus() reports the service as not
\* running and no interval timer is left to fire, whether or not a start()
\* is still awaiting its state load and initial run.
C28_StoppedAfterStop ==
    [][StopSync => /\ getSyncStatus'.isRunning = FALSE
                   /\ timers' = {}]_vars

\* C30: at most one interval timer is active, the one syncInterval holds, and
\* a start() while the service is flagged running schedules nothing.
C30_OneTimer ==
    /\ [](/\ Cardinality(timers) <= 1
          /\ timers \subseteq {syncInterval}
          /\ Cardinality({p \in pend : p.op = "start"}) + Cardinality(timers) <= 1)
    /\ [][(StartBegin /\ isRunning) => UNCHANGED <<timerVars, pend>>]_vars

\* After a start(), a stop() and a further start() that has returned, the
\* timer of the last start() is the one active.
C30_Witness ==
    /\ isRunning
    /\ nStarts >= 2
    /\ timers = {nStarts}
    /\ syncInterval = nStarts
    /\ pend = {}
    /\ resp = [op |-> "syncStart", code |-> 200]

\* C29: a table's currentOrderId, when not null, names an existing order
\* that is on that table and is neither paid nor completed.
C29_LinkNamesActiveOrder ==
    \A t \in DOMAIN tables :
        tables[t].currentOrderId # NULL
            => /\ hasDoc(orders, tables[t].currentOrderId)
               /\ orders[tables[t].currentOrderId].tableId = t
               /\ orders[tables[t].currentOrderId].status \notin {"paid", "completed"}

====
